---- MODULE Spec2Model ----
(***************************************************************************)
(* Spatio-temporal matchup engine of incubator-sdap-nexus                  *)
(* (analysis/webservice/algorithms_spark/Matchup.py and the tile service   *)
(* of data-access/nexustiles/nexustiles.py).                               *)
(*                                                                         *)
(* Units of the model.  Longitudes and latitudes are integers ("ticks").   *)
(* Lengths in metres are counted in the unit that one tick of latitude     *)
(* spans, so that the source's  meters / 111111  (metres to degrees) maps  *)
(* a length of m units to m ticks.  cos(latitude) takes the values 1 and   *)
(* 1/2 and is kept as twice its value (Cos2).  Times are seconds since the *)
(* epoch; an ISO-8601 string is the pair (day number, second of the day).  *)
(***************************************************************************)
EXTENDS Integers, Sequences, FiniteSets, TLC

VARIABLES
    pc,            \* position of Matchup.calc
    req,           \* the request's parsed arguments
    execution_id,  \* execution record created by insertExecution (0: none)
    tile_ids,      \* ids of the primary tiles found in the search domain
    tasks,         \* partition index -> state of its match_satellite_to_insitu task
    shuffled,      \* key -> combiner, merged over the finished partitions
    spark_result,  \* the map returned by spark_matchup_driver (collectAsMap)
    response,      \* what calc returned or raised
    stored,        \* results written to ResultsStorage by do_result_insert
    edge_end,      \* how the in-situ source marks its last page
    num_tiles,     \* argument of determine_parllelism (partition-count check)
    num_partitions, \* its result
    drivers,       \* concurrent calls of spark_matchup_driver (lock check)
    DRIVER_LOCK,   \* the call that holds the lock (0: free)
    chain,         \* the chained generators of one partition, pair by pair
    masking,       \* a call of mask_tiles_to_polygon and what it gave
    edge_call      \* a call of query_edge, request by request

vars == <<pc, req, execution_id, tile_ids, tasks, shuffled, spark_result,
          response, stored, edge_end, num_tiles, num_partitions,
          drivers, DRIVER_LOCK, chain, masking, edge_call>>

(***************************************************************************)
(* Bounds of the model                                                     *)
(***************************************************************************)
NumTiles == 10       \* primary tiles held by the Tile Store
MaxTt == 1           \* time tolerances 0..MaxTt seconds
MaxRtHalf == 1       \* radius tolerances 0, 2, .., 2*MaxRtHalf
PageSize == 2        \* records per page of the in-situ source
MaxTilesPar == 18100 \* largest tile count given to determine_parllelism
MaxDepth == 1        \* depth arguments 0..MaxDepth
MaxLimit == 1        \* result size limits 0..MaxLimit and the default
NumCalls == 2        \* concurrent calls of spark_matchup_driver
MaxAxis == 2         \* samples along an axis of a tile given to the masking

(***************************************************************************)
(* Program constants                                                       *)
(***************************************************************************)
TilesPerPartition == 140
MaxPartitions == 128
MinPartitions == 8
SecondsPerDay == 86400
RowCap == 5000
Cores == 2
DefaultLimit == 500

None == "None"
NA == "NA"
Absent == "absent"

Min2(a, b) == IF a <= b THEN a ELSE b
Max2(a, b) == IF a >= b THEN a ELSE b
Abs(x) == IF x < 0 THEN -x ELSE x
Range(s) == {s[i] : i \in DOMAIN s}

(***************************************************************************)
(* Time formatting: strftime('%Y-%m-%dT%H:%M:%SZ') keeps the date and the  *)
(* time of day; iso_time_to_epoch parses them back.                        *)
(***************************************************************************)
FormatIso(t) == [day |-> t \div SecondsPerDay, sec |-> t % SecondsPerDay]

iso_time_to_epoch(str_time) == str_time.day * SecondsPerDay + str_time.sec

(***************************************************************************)
(* determine_parllelism: max(min(num_tiles / 140, 128), 8) with Python 3   *)
(* true division.  A number is the fraction num/den (den > 0).             *)
(***************************************************************************)
Frac(n, d) == [num |-> n, den |-> d]
FracLeq(a, b) == a.num * b.den <= b.num * a.den
FracLt(a, b) == a.num * b.den < b.num * a.den
FracEq(a, b) == a.num * b.den = b.num * a.den
FracMin(a, b) == IF FracLt(b, a) THEN b ELSE a
FracMax(a, b) == IF FracLt(a, b) THEN b ELSE a

determine_parllelism_nomin(n) ==
    FracMin(Frac(n, TilesPerPartition), Frac(MaxPartitions, 1))

determine_parllelism_floor(n) ==
    FracMax(FracMin(Frac(n \div TilesPerPartition, 1), Frac(MaxPartitions, 1)),
            Frac(MinPartitions, 1))

determine_parllelism(n) ==
    FracMax(FracMin(Frac(n, TilesPerPartition), Frac(MaxPartitions, 1)),
            Frac(MinPartitions, 1))

(***************************************************************************)
(* The world outside the engine: the Tile Store's primary tiles and the    *)
(* in-situ records of the Secondary Point Source.                          *)
(***************************************************************************)
BaseTime == SecondsPerDay - 2

TileLoc(k) == (k - 1) % 3
TileSlot(k) == (k - 1) \div 2

\* Tile 4 spans two longitudes; tile 7 spans two times, two latitudes and
\* two longitudes inside every search box, its first sample invalid.
WideTile == 4
CubicTile == 7

\* A tile is a time x latitude x longitude grid; mask[<<t, i, j>>] is TRUE
\* for an invalid sample.  Indices count from 1.
PrimaryTile(k) ==
    LET loc == TileLoc(k)
        t0 == BaseTime + TileSlot(k)
        times == IF k = CubicTile THEN <<t0, t0 + 1>> ELSE <<t0>>
        lats == IF k = CubicTile THEN <<0, 1>> ELSE <<loc>>
        lons == IF k = WideTile THEN <<2 * loc, 2 * loc + 1>>
                ELSE IF k = CubicTile THEN <<2, 3>> ELSE <<2 * loc>>
    IN  [tile_id |-> k,
         dataset |-> "primary",
         times |-> times,
         latitudes |-> lats,
         longitudes |-> lons,
         mask |-> [idx \in (DOMAIN times) \X (DOMAIN lats) \X (DOMAIN lons) |->
                      k % 4 = 2 \/ (k = CubicTile /\ idx = <<1, 1, 1>>)],
         bbox |-> [min_lon |-> lons[1], min_lat |-> lats[1],
                   max_lon |-> lons[Len(lons)], max_lat |-> lats[Len(lats)]],
         min_time |-> times[1],
         max_time |-> times[Len(times)]]

\* Tiles of the gridded secondary dataset, at the time of the first
\* primary tiles: tile 101 spans (0, 0) and (1, 0) with only the second
\* sample valid, tile 102 holds one masked sample at (2, 1), tile 103 one
\* valid sample at (1, 1).
GriddedIds == {101, 102, 103}

GriddedTile(k) ==
    LET lons == IF k = 101 THEN <<0, 1>> ELSE IF k = 102 THEN <<2>> ELSE <<1>>
        lat == IF k = 101 THEN 0 ELSE 1
    IN  [tile_id |-> k,
         dataset |-> "gridded",
         times |-> <<BaseTime>>,
         latitudes |-> <<lat>>,
         longitudes |-> lons,
         mask |-> [idx \in {1} \X {1} \X DOMAIN lons |->
                      ~((k = 101 /\ idx[3] = 2) \/ k = 103)],
         bbox |-> [min_lon |-> lons[1], min_lat |-> lat,
                   max_lon |-> lons[Len(lons)], max_lat |-> lat],
         min_time |-> BaseTime,
         max_time |-> BaseTime]

Tile(k) == IF k \in GriddedIds THEN GriddedTile(k) ELSE PrimaryTile(k)

TileIds == (1..NumTiles) \cup GriddedIds

InsituRecords ==
    << [id |-> 101, longitude |-> 2, latitude |-> 1, platform |-> "30",
         time |-> FormatIso(BaseTime + 2)],
       [id |-> 102, longitude |-> 3, latitude |-> 1, platform |-> "30",
         time |-> FormatIso(BaseTime + 4)],
       [id |-> 103, longitude |-> 1, latitude |-> 1, platform |-> "30",
         time |-> FormatIso(BaseTime + 3)],
       [id |-> 104, longitude |-> 0, latitude |-> 0, platform |-> "30",
         time |-> FormatIso(BaseTime - 1)],
       [id |-> 105, longitude |-> 4, latitude |-> 2, platform |-> "30",
         time |-> FormatIso(BaseTime + 3)],
       [id |-> 106, longitude |-> 3, latitude |-> 1, platform |-> "30",
         time |-> FormatIso(BaseTime + 3)] >>

SearchBoxes ==
    { [min_x |-> 0, min_y |-> 0, max_x |-> 5, max_y |-> 2],
      [min_x |-> 1, min_y |-> 0, max_x |-> 3, max_y |-> 1] }

\* Tile a comes before tile b under the sort
\* 'tile_min_time_dt asc', 'tile_min_lon asc', 'tile_min_lat asc'.
TileBefore(a, b) ==
    LET ka == <<Tile(a).min_time, Tile(a).bbox.min_lon, Tile(a).bbox.min_lat, a>>
        kb == <<Tile(b).min_time, Tile(b).bbox.min_lon, Tile(b).bbox.min_lat, b>>
    IN  \E n \in 1..4 : ka[n] < kb[n] /\ \A j \in 1..(n - 1) : ka[j] = kb[j]

RECURSIVE SortedSeq(_)
SortedSeq(S) ==
    IF S = {} THEN <<>>
    ELSE LET m == CHOOSE x \in S : \A y \in S \ {x} : TileBefore(x, y)
         IN  <<m>> \o SortedSeq(S \ {m})

Take(s, n) == SubSeq(s, 1, Min2(n, Len(s)))

(***************************************************************************)
(* Tile Store                                                              *)
(***************************************************************************)
\* Tiles of the dataset whose box and time range intersect the query,
\* sorted by (min time, min lon, min lat), at most `rows` of them.
find_tiles_in_polygon(box, ds, start_time, end_time, rows) ==
    Take(SortedSeq({k \in TileIds :
            /\ Tile(k).dataset = ds
            /\ Tile(k).bbox.min_lon <= box.max_x
            /\ Tile(k).bbox.max_lon >= box.min_x
            /\ Tile(k).bbox.min_lat <= box.max_y
            /\ Tile(k).bbox.max_lat >= box.min_y
            /\ Tile(k).min_time <= end_time
            /\ Tile(k).max_time >= start_time}), rows)

SetMin(S) == CHOOSE x \in S : \A y \in S : x <= y
SetMax(S) == CHOOSE x \in S : \A y \in S : x >= y

get_bounding_box(ids) ==
    [min_lon |-> SetMin({Tile(ids[n]).bbox.min_lon : n \in DOMAIN ids}),
     min_lat |-> SetMin({Tile(ids[n]).bbox.min_lat : n \in DOMAIN ids}),
     max_lon |-> SetMax({Tile(ids[n]).bbox.max_lon : n \in DOMAIN ids}),
     max_lat |-> SetMax({Tile(ids[n]).bbox.max_lat : n \in DOMAIN ids})]

get_min_time(ids) == SetMin({Tile(ids[n]).min_time : n \in DOMAIN ids})

get_max_time(ids) == SetMax({Tile(ids[n]).max_time : n \in DOMAIN ids})

(***************************************************************************)
(* Secondary Point Source: one page per request.  A request to the         *)
(* endpoint carries the query in its parameters; a continuation URL        *)
(* carries the query and the index of its first record.                    *)
(***************************************************************************)
Endpoint == [kind |-> "endpoint"]
NextUrl(q, s) == [kind |-> "next", q |-> q, startIndex |-> s]
NoUrl(k) == [kind |-> k]
NoParams == [kind |-> "empty"]

EdgeMatching(q) ==
    SelectSeq(InsituRecords, LAMBDA r :
        /\ q.bbox.min_lon <= r.longitude /\ r.longitude <= q.bbox.max_lon
        /\ q.bbox.min_lat <= r.latitude /\ r.latitude <= q.bbox.max_lat
        /\ iso_time_to_epoch(q.startTime) <= iso_time_to_epoch(r.time)
        /\ iso_time_to_epoch(r.time) <= iso_time_to_epoch(q.endTime))

EdgePage(url, params, last) ==
    LET q == IF url.kind = "endpoint" THEN params ELSE url.q
        s == IF url.kind = "endpoint" THEN 0 ELSE url.startIndex
        all == EdgeMatching(q)
        e == Min2(s + PageSize, Len(all))
    IN  [total |-> Len(all),
         results |-> SubSeq(all, s + 1, e),
         next |-> IF e < Len(all) THEN NextUrl(q, e) ELSE NoUrl(last)]

(***************************************************************************)
(* Provider registry (doms/config.py) and the secondary argument.  The     *)
(* argument is one string; "samos,icoads" is the comma-delimited list of   *)
(* two registered names.                                                   *)
(***************************************************************************)
RegisteredProjects == {"samos", "icoads"}

Secondaries == {"samos", "samos,icoads", "gridded", "nosuch"}

\* str.split(',')
Split(names) == IF names = "samos,icoads" THEN <<"samos", "icoads">> ELSE <<names>>

\* The provider of a project name, None when no provider lists that name.
get_provider_name(project_name) ==
    IF project_name \in RegisteredProjects THEN project_name ELSE None

(***************************************************************************)
(* Extent of a partition                                                   *)
(***************************************************************************)
\* Twice the cosine of a latitude: row 0 of the world lies on the equator
\* (cos = 1), the rows above it at 60 degrees (cos = 1/2).
Cos2(lat) == IF lat >= 1 THEN 1 ELSE 2

add_meters_to_lon_lat(lon, lat, meters) ==
    [longitude |-> lon + (meters * Cos2(lat)) \div 2,
     latitude |-> lat + meters]

\* Lines 664-674 without the clip to the search domain.
MatchupBox_noclip(ids, rt, box) ==
    LET bb == get_bounding_box(ids)
        lo == add_meters_to_lon_lat(bb.min_lon, bb.min_lat, -1 * rt)
        hi == add_meters_to_lon_lat(bb.max_lon, bb.max_lat, rt)
    IN  [min_lon |-> lo.longitude, min_lat |-> lo.latitude,
         max_lon |-> hi.longitude, max_lat |-> hi.latitude]

MatchupBox(ids, rt, box) ==
    LET bb == get_bounding_box(ids)
        lo == add_meters_to_lon_lat(bb.min_lon, bb.min_lat, -1 * rt)
        hi == add_meters_to_lon_lat(bb.max_lon, bb.max_lat, rt)
    IN  [min_lon |-> Max2(lo.longitude, box.min_x),
         min_lat |-> Max2(lo.latitude, box.min_y),
         max_lon |-> Min2(hi.longitude, box.max_x),
         max_lat |-> Min2(hi.latitude, box.max_y)]

MatchupTimes(ids, tt) ==
    [min_time |-> get_min_time(ids) - tt, max_time |-> get_max_time(ids) + tt]

(***************************************************************************)
(* Projection: azimuthal equidistant about the centroid of the matchup     *)
(* box.  A projected coordinate is kept as four times its value; the       *)
(* centroid is kept as twice its value.                                    *)
(***************************************************************************)
Centroid2(b) == <<b.min_lon + b.max_lon, b.min_lat + b.max_lat>>

aeqd_proj(c2, lon, lat) ==
    <<(2 * lon - c2[1]) * Cos2(lat), 2 * (2 * lat - c2[2])>>

\* Planar distance of two projected points is at most r.
WithinBall(a, b, r) ==
    (a[1] - b[1]) * (a[1] - b[1]) + (a[2] - b[2]) * (a[2] - b[2])
        <= (4 * r) * (4 * r)

(***************************************************************************)
(* Masking of tiles to the search polygon                                  *)
(***************************************************************************)
Outside(x, lo, hi) == x < lo \/ x > hi

Shape(tile) == <<Len(tile.times), Len(tile.latitudes), Len(tile.longitudes)>>

\* The shape of data_mask: the latitude mask on the first axis, the
\* longitude mask on the second, data.shape[-1] entries on the third.
MaskShape(tile) ==
    <<Len(tile.latitudes), Len(tile.longitudes), Len(tile.longitudes)>>

\* masked_where raises IndexError when condition and data differ in shape.
MaskRaises(tile) == MaskShape(tile) # Shape(tile)

\* data_mask[a, b, c] is the latitude mask at a or the longitude mask at b.
MaskOne(min_lat, max_lat, min_lon, max_lon, tile) ==
    [tile EXCEPT !.mask = [idx \in DOMAIN tile.mask |->
        \/ tile.mask[idx]
        \/ Outside(tile.latitudes[idx[1]], min_lat, max_lat)
        \/ Outside(tile.longitudes[idx[2]], min_lon, max_lon)]]

AllMasked(tile) == \A idx \in DOMAIN tile.mask : tile.mask[idx]

\* [raised: an IndexError left the loop, tiles: the tiles kept]
mask_tiles_to_bbox(min_lat, max_lat, min_lon, max_lon, tiles) ==
    IF \E n \in DOMAIN tiles : MaskRaises(tiles[n])
    THEN [raised |-> TRUE, tiles |-> <<>>]
    ELSE [raised |-> FALSE,
          tiles |-> SelectSeq(
              [n \in DOMAIN tiles |->
                  MaskOne(min_lat, max_lat, min_lon, max_lon, tiles[n])],
              LAMBDA t : ~AllMasked(t))]

mask_tiles_to_polygon(box, tiles) ==
    mask_tiles_to_bbox(box.min_y, box.max_y, box.min_x, box.max_x, tiles)

find_tile_by_id(tile_id) ==
    IF tile_id \in TileIds THEN <<Tile(tile_id)>> ELSE <<>>

\* Indices of the valid samples, in row-major order.
get_indices(tile) ==
    LET nt == Len(tile.times)
        ni == Len(tile.latitudes)
        nj == Len(tile.longitudes)
        At(n) == <<((n - 1) \div (ni * nj)) + 1,
                   (((n - 1) \div nj) % ni) + 1,
                   ((n - 1) % nj) + 1>>
    IN  SelectSeq([n \in 1..(nt * ni * nj) |-> At(n)],
                  LAMBDA idx : ~tile.mask[idx])

(***************************************************************************)
(* Canonical points                                                        *)
(***************************************************************************)
\* DomsPoint defines neither __eq__ nor __hash__: two points are the same
\* dictionary key only when they are the same object.  oid names the object:
\* where it was created and, there, for which sample.
PrimaryOid_perpair(part, tile_id, idx, m) ==
    [created |-> "generator", partition |-> part, tile_id |-> tile_id,
     index |-> idx, seq |-> m]

\* One primary object per valid sample (line 815, outside the inner loop).
PrimaryOid(part, tile_id, idx, m) ==
    [created |-> "generator", partition |-> part, tile_id |-> tile_id,
     index |-> idx, seq |-> 0]

from_nexus_point(tile, idx, oid) ==
    [data_id |-> <<tile.tile_id, idx>>,
     longitude |-> tile.longitudes[idx[3]],
     latitude |-> tile.latitudes[idx[2]],
     time |-> FormatIso(tile.times[idx[1]]),
     source |-> tile.dataset,
     platform |-> "9",
     oid |-> oid]

from_edge_point(edge_point) ==
    [data_id |-> edge_point.id,
     longitude |-> edge_point.longitude,
     latitude |-> edge_point.latitude,
     time |-> edge_point.time,
     source |-> edge_point.source,
     platform |-> edge_point.platform]

\* The exception from_edge_point raises on an edge point, None when it
\* returns: edge_point['longitude'] and edge_point['latitude'] must exist
\* (line 428) and the platform must admit  'code' in platform  (line 440).
from_edge_point_error(edge_point) ==
    IF ~({"longitude", "latitude"} \subseteq DOMAIN edge_point) THEN "KeyError"
    ELSE IF edge_point.platform = None THEN "TypeError"
    ELSE None

\* The valid samples of a secondary tile as edge points (lines 626-647).
tile_to_edge_points(tile) ==
    LET indices == get_indices(tile)
    IN  [n \in DOMAIN indices |->
            [point |-> <<tile.longitudes[indices[n][3]],
                         tile.latitudes[indices[n][2]]>>,
             time |-> FormatIso(tile.times[indices[n][1]]),
             source |-> tile.dataset,
             platform |-> None]]

\* A key after pickling and unpickling is a new object.
Unpickle(key, where) == [key EXCEPT !.oid.created = where]

(***************************************************************************)
(* match_tile_to_point_generator: the candidate pairs of one primary tile  *)
(***************************************************************************)
RECURSIVE Flatten(_)
Flatten(ss) == IF ss = <<>> THEN <<>> ELSE Head(ss) \o Flatten(Tail(ss))

\* A ball query that leaves out the points at exactly the radius.
BallMatches_open(c2, lon, lat, matchup_points, r) ==
    SelectSeq([m \in DOMAIN matchup_points |-> m], LAMBDA m :
        LET a == aeqd_proj(c2, lon, lat)
            b == aeqd_proj(c2, matchup_points[m][1], matchup_points[m][2])
        IN  (a[1] - b[1]) * (a[1] - b[1]) + (a[2] - b[2]) * (a[2] - b[2])
                < (4 * r) * (4 * r))

\* query_ball_tree: for a primary point the indices of the secondary points
\* within the radius.
BallMatches(c2, lon, lat, matchup_points, r) ==
    SelectSeq([m \in DOMAIN matchup_points |-> m], LAMBDA m :
        WithinBall(aeqd_proj(c2, lon, lat),
                   aeqd_proj(c2, matchup_points[m][1], matchup_points[m][2]),
                   r))

\* The tile as loaded at lines 773-781: <<>> when the tile is skipped.
LoadTile(tile_id, box) ==
    LET r == mask_tiles_to_polygon(box, find_tile_by_id(tile_id))
    IN  IF r.raised THEN <<>> ELSE Take(r.tiles, 1)

\* [error: the exception that leaves the generator (None when it ends),
\*  pairs: the pairs it yields when it ends]
\* Lines 783-818: the pairs of a loaded tile.
MatchLoadedTile(part, tile, matchup_points, edge_results, radius_tolerance, c2) ==
    LET valid_indices == get_indices(tile)
        Matches(i) ==
            BallMatches(c2, tile.longitudes[valid_indices[i][3]],
                        tile.latitudes[valid_indices[i][2]],
                        matchup_points, radius_tolerance)
        PairsOf(i) ==
            [k \in DOMAIN Matches(i) |->
               <<from_nexus_point(tile, valid_indices[i],
                     PrimaryOid(part, tile.tile_id, valid_indices[i], Matches(i)[k])),
                 from_edge_point(edge_results[Matches(i)[k]])>>]
        matched == Flatten([i \in DOMAIN valid_indices |-> Matches(i)])
        errors == SelectSeq(
            [n \in DOMAIN matched |-> from_edge_point_error(edge_results[matched[n]])],
            LAMBDA e : e # None)
    IN  IF errors # <<>>
        THEN [error |-> errors[1], pairs |-> <<>>]
        ELSE [error |-> None,
              pairs |-> Flatten([i \in DOMAIN valid_indices |-> PairsOf(i)])]

\* The IndexError of an empty tile list is not caught.
match_tile_to_point_generator_uncaught(part, tile_id, matchup_points, edge_results, box, radius_tolerance, c2) ==
    LET loaded == LoadTile(tile_id, box)
    IN  IF loaded = <<>> THEN [error |-> "IndexError", pairs |-> <<>>]
        ELSE MatchLoadedTile(part, loaded[1], matchup_points, edge_results,
                             radius_tolerance, c2)

\* Lines 773-781: a tile that is empty after masking is skipped.
match_tile_to_point_generator(part, tile_id, matchup_points, edge_results, box, radius_tolerance, c2) ==
    LET loaded == LoadTile(tile_id, box)
    IN  IF loaded = <<>> THEN [error |-> None, pairs |-> <<>>]
        ELSE MatchLoadedTile(part, loaded[1], matchup_points, edge_results,
                             radius_tolerance, c2)

(***************************************************************************)
(* Temporal filter and aggregation (spark_matchup_driver, lines 566-594)   *)
(***************************************************************************)
TimeFilter_noabs(p_m_tuple, time_tolerance) ==
    iso_time_to_epoch(p_m_tuple[1].time) - iso_time_to_epoch(p_m_tuple[2].time)
        <= time_tolerance

TimeFilter(p_m_tuple, time_tolerance) ==
    Abs(iso_time_to_epoch(p_m_tuple[1].time) - iso_time_to_epoch(p_m_tuple[2].time))
        <= time_tolerance

\* Geodesic distance of two points, as sixteen times its square.
dist(primary, matchup) ==
    LET dx == (matchup.longitude - primary.longitude)
                  * (Cos2(primary.latitude) + Cos2(matchup.latitude))
        dy == 4 * (matchup.latitude - primary.latitude)
    IN  dx * dx + dy * dy

WithDist(p_m_tuple) == [m |-> p_m_tuple[2], d |-> dist(p_m_tuple[1], p_m_tuple[2])]

reduce_func_first(match_1, match_2) ==
    IF match_1.d <= match_2.d THEN match_1 ELSE match_2

reduce_func_farthest(match_1, match_2) ==
    IF match_1.d > match_2.d THEN match_1 ELSE match_2

reduce_func(match_1, match_2) ==
    IF match_1.d < match_2.d THEN match_1 ELSE match_2

\* The value of a pair, the combiner of a first value, a value merged into
\* a combiner and two combiners merged, under either policy.
ValueOf(match_once, p_m_tuple) ==
    IF match_once THEN WithDist(p_m_tuple) ELSE p_m_tuple[2]

createCombiner(match_once, value) ==
    IF match_once THEN value ELSE <<value>>

mergeValue_dropping(match_once, comb, value) ==
    IF match_once THEN reduce_func(comb, value) ELSE <<value>>

mergeValue(match_once, comb, value) ==
    IF match_once THEN reduce_func(comb, value) ELSE comb \o <<value>>

mergeCombiners(match_once, a, b) ==
    IF match_once THEN reduce_func(a, b) ELSE a \o b

EmptyMap == [k \in {} |-> <<>>]

\* combineByKey within a partition: the pairs in arrival order.
RECURSIVE CombineLocally(_, _, _)
CombineLocally(local, pairs, match_once) ==
    IF pairs = <<>> THEN local
    ELSE LET k == Head(pairs)[1]
             v == ValueOf(match_once, Head(pairs))
             nxt == IF k \in DOMAIN local
                    THEN [local EXCEPT ![k] = mergeValue(match_once, @, v)]
                    ELSE [x \in DOMAIN local \cup {k} |->
                            IF x = k THEN createCombiner(match_once, v) ELSE local[x]]
         IN  CombineLocally(nxt, Tail(pairs), match_once)

\* The output of a partition replaces what was merged before.
MergeShuffled_replace(acc, local, match_once) ==
    LET keys == {Unpickle(k, "shuffle") : k \in DOMAIN local}
        Src(k) == CHOOSE x \in DOMAIN local : Unpickle(x, "shuffle") = k
    IN  [k \in keys |-> local[Src(k)]]

\* The shuffled output of a partition merged into the reduce side.
MergeShuffled(acc, local, match_once) ==
    LET keys == {Unpickle(k, "shuffle") : k \in DOMAIN local}
        Src(k) == CHOOSE x \in DOMAIN local : Unpickle(x, "shuffle") = k
    IN  [k \in DOMAIN acc \cup keys |->
            IF k \in DOMAIN acc /\ k \in keys
            THEN mergeCombiners(match_once, acc[k], local[Src(k)])
            ELSE IF k \in keys THEN local[Src(k)] ELSE acc[k]]

\* mapValues after reduceByKey (line 589), then collectAsMap.
collectAsMap(acc, match_once) ==
    LET keys == {Unpickle(k, "collect") : k \in DOMAIN acc}
        Src(k) == CHOOSE x \in DOMAIN acc : Unpickle(x, "collect") = k
    IN  [k \in keys |-> IF match_once THEN <<acc[Src(k)].m>> ELSE acc[Src(k)]]

(***************************************************************************)
(* Partitions                                                              *)
(***************************************************************************)
\* sc.parallelize(tile_ids, n): n contiguous, balanced slices.
Slice(ids, i, n) ==
    SubSeq(ids, (i * Len(ids)) \div n + 1, ((i + 1) * Len(ids)) \div n)

parallelize(ids, p) ==
    LET n == p.num \div p.den
    IN  [i \in 1..n |-> Slice(ids, i - 1, n)]

\* is_insitu_dataset: the variant; name_pos: the secondary name being
\* queried; fetched: the secondary points have been fetched; error: the
\* exception that failed the task; store_calls: the calls made to the Tile
\* Store.
NewTask(ids) ==
    [tile_ids |-> ids, pc |-> "waiting",
     box |-> [min_lon |-> 0, min_lat |-> 0, max_lon |-> 0, max_lat |-> 0],
     times |-> [min_time |-> 0, max_time |-> 0],
     is_insitu_dataset |-> FALSE, name_pos |-> 1,
     next_page_url |-> Endpoint, params |-> NoParams,
     requests |-> <<>>, edge_response |-> <<>>, edge_results |-> <<>>,
     matchup_points |-> <<>>, fetched |-> FALSE, error |-> None,
     store_calls |-> 0, tpos |-> 1, local |-> EmptyMap]

IsUrl(u) == u.kind \in {"endpoint", "next"}

Running(i) == tasks[i].pc \in {"fetch", "match", "combined"}

\* A failed task aborts the job: its other tasks are cancelled.
JobAlive == pc = "running" /\ \A j \in DOMAIN tasks : tasks[j].pc # "failed"

\* Tasks are launched in partition order, Cores of them at a time.
MayStart(i) ==
    /\ tasks[i].pc = "waiting"
    /\ \A j \in 1..(i - 1) : tasks[j].pc # "waiting"
    /\ Cardinality({j \in DOMAIN tasks : Running(j)}) < Cores

(***************************************************************************)
(* Requests                                                                *)
(***************************************************************************)
RequiredArgs == {"b", "primary", "secondary", "startTime", "endTime", "platforms"}

ResultSizeLimits == 0..MaxLimit

\* given: the arguments present in the request; parameter is None when it
\* is absent; the value of an absent argument is not read.
ValidRequests ==
    [bounding_box : SearchBoxes,
     primary : {"primary"},
     secondary : Secondaries,
     parameter : {None},
     platforms : {"30"},
     start_time : {BaseTime},
     end_time : {BaseTime + 4},
     depth_min : {0},
     depth_max : {0},
     time_tolerance : 0..MaxTt,
     radius_tolerance : {2 * h : h \in 0..MaxRtHalf},
     match_once : BOOLEAN,
     result_size_limit : {DefaultLimit},
     given : {RequiredArgs}]

BaseRequest ==
    [bounding_box |-> [min_x |-> 0, min_y |-> 0, max_x |-> 5, max_y |-> 2],
     primary |-> "primary", secondary |-> "samos", parameter |-> None,
     platforms |-> "30", start_time |-> BaseTime, end_time |-> BaseTime + 4,
     depth_min |-> 0, depth_max |-> 0, time_tolerance |-> 1,
     radius_tolerance |-> 2, match_once |-> FALSE,
     result_size_limit |-> DefaultLimit, given |-> RequiredArgs]

\* Requests with an argument missing, with a parameter, with the time range
\* reversed, with depths, or with a result size limit of their own.
OtherRequests ==
    {[r EXCEPT !.result_size_limit = l] :
        r \in {v \in ValidRequests : v.secondary = "samos" /\ ~v.match_once},
        l \in ResultSizeLimits}
    \cup
    {[BaseRequest EXCEPT !.given = RequiredArgs \ {a}] : a \in RequiredArgs}
    \cup {[BaseRequest EXCEPT !.given = {}]}
    \cup {[BaseRequest EXCEPT !.parameter = p] : p \in {"sst", "salinity"}}
    \cup {[BaseRequest EXCEPT !.start_time = BaseRequest.end_time + 1]}
    \cup {[BaseRequest EXCEPT !.given = RequiredArgs \cup {"depthMin", "depthMax"},
                              !.depth_min = a, !.depth_max = b] :
              a, b \in 0..MaxDepth}
    \cup {[BaseRequest EXCEPT !.given = RequiredArgs \cup {"depthMin"},
                              !.depth_min = MaxDepth]}

Requests == ValidRequests \cup OtherRequests

Rejected(reason) == [ok |-> FALSE, code |-> 400, reason |-> reason]

\* parse_arguments: the checks in the order of lines 144-192.
parse_arguments(request) ==
    IF "b" \notin request.given THEN Rejected("'b' argument is required")
    ELSE IF "primary" \notin request.given
    THEN Rejected("'primary' argument is required")
    ELSE IF "secondary" \notin request.given
    THEN Rejected("'secondary' argument is required")
    ELSE IF request.parameter \notin {None, "sst", "sss", "wind"}
    THEN Rejected("Parameter not supported")
    ELSE IF "startTime" \notin request.given
    THEN Rejected("'startTime' argument is required")
    ELSE IF "endTime" \notin request.given
    THEN Rejected("'endTime' argument is required")
    ELSE IF request.start_time > request.end_time
    THEN Rejected("The starting time must be before the ending time")
    ELSE IF /\ {"depthMin", "depthMax"} \subseteq request.given
            /\ request.depth_min >= request.depth_max
    THEN Rejected("Depth Min should be less than Depth Max")
    ELSE IF "platforms" \notin request.given
    THEN Rejected("'platforms' argument is required")
    ELSE [ok |-> TRUE]

NoResponse == [kind |-> "none"]
NoChain == [kind |-> "none"]
NoMasking == [kind |-> "none"]
NoEdgeCall == [kind |-> "none"]
NoStored == [kind |-> "none"]

Init ==
    /\ pc = "parse"
    /\ req \in Requests
    /\ edge_end \in {None, NA, Absent}
    /\ execution_id = 0
    /\ tile_ids = <<>>
    /\ tasks = <<>>
    /\ shuffled = EmptyMap
    /\ spark_result = EmptyMap
    /\ response = NoResponse
    /\ stored = NoStored
    /\ num_tiles = 0
    /\ num_partitions = Frac(0, 1)
    /\ drivers = <<>>
    /\ DRIVER_LOCK = 0
    /\ chain = NoChain
    /\ masking = NoMasking
    /\ edge_call = NoEdgeCall

(***************************************************************************)
(* Matchup.calc up to the call of the driver (lines 206-227)               *)
(***************************************************************************)
\* Line 212: a rejected request ends calc with the exception of
\* parse_arguments.
ParseArguments ==
    /\ pc = "parse"
    /\ LET parsed == parse_arguments(req)
       IN  IF parsed.ok
           THEN pc' = "calc" /\ response' = response
           ELSE /\ pc' = "rejected"
                /\ response' = [kind |-> "error", code |-> parsed.code,
                                reason |-> parsed.reason]
    /\ UNCHANGED <<drivers, DRIVER_LOCK, chain, masking, edge_call, req, execution_id, tile_ids, tasks, shuffled, spark_result,
                   stored, edge_end, num_tiles, num_partitions>>

FindTiles ==
    /\ pc = "calc"
    /\ execution_id' = 1
    /\ tile_ids' = find_tiles_in_polygon(req.bounding_box, req.primary,
                                         req.start_time, req.end_time, RowCap)
    /\ pc' = "driver"
    /\ UNCHANGED <<drivers, DRIVER_LOCK, chain, masking, edge_call, req, tasks, shuffled, spark_result, response, stored,
                   edge_end, num_tiles, num_partitions>>

\* spark_matchup_driver, lines 535-548: broadcast and parallelize.
Driver ==
    /\ pc = "driver"
    /\ num_tiles' = Len(tile_ids)
    /\ num_partitions' = determine_parllelism(Len(tile_ids))
    /\ tasks' = [i \in DOMAIN parallelize(tile_ids, num_partitions') |->
                    NewTask(parallelize(tile_ids, num_partitions')[i])]
    /\ pc' = "running"
    /\ UNCHANGED <<drivers, DRIVER_LOCK, chain, masking, edge_call, req, execution_id, tile_ids, shuffled, spark_result,
                   response, stored, edge_end>>

(***************************************************************************)
(* match_satellite_to_insitu on one partition                              *)
(***************************************************************************)
EdgeParams(t, box, times) ==
    [kind |-> "query",
     startTime |-> FormatIso(times.min_time),
     endTime |-> FormatIso(times.max_time),
     bbox |-> box,
     project |-> Split(req.secondary)[t.name_pos],
     platform |-> req.platforms]

\* Without the test of line 652 the extent of no tiles is asked of the
\* Tile Store, which fails.
TaskStart_nocheck(i) ==
    /\ JobAlive
    /\ MayStart(i)
    /\ LET t == tasks[i]
           box == MatchupBox(t.tile_ids, req.radius_tolerance, req.bounding_box)
           times == MatchupTimes(t.tile_ids, req.time_tolerance)
       IN  tasks' = [tasks EXCEPT ![i] =
              IF Len(t.tile_ids) = 0
              THEN [t EXCEPT !.pc = "failed", !.error = "IndexError",
                             !.store_calls = @ + 1]
              ELSE [t EXCEPT !.pc = "fetch", !.box = box, !.times = times,
                             !.store_calls = @ + 3,
                             !.is_insitu_dataset =
                                 get_provider_name(req.secondary) # None,
                             !.next_page_url = Endpoint,
                             !.params =
                                 IF get_provider_name(req.secondary) # None
                                 THEN EdgeParams(t, box, times) ELSE NoParams]]
    /\ UNCHANGED <<drivers, DRIVER_LOCK, chain, masking, edge_call, pc, req, execution_id, tile_ids, shuffled, spark_result,
                   response, stored, edge_end, num_tiles, num_partitions>>

\* Lines 652-698: an empty partition returns at once; otherwise the extent
\* is asked of the Tile Store (get_bounding_box, get_min_time, get_max_time)
\* and the first request prepared.
TaskStart(i) ==
    /\ JobAlive
    /\ MayStart(i)
    /\ LET t == tasks[i]
           box == MatchupBox(t.tile_ids, req.radius_tolerance, req.bounding_box)
           times == MatchupTimes(t.tile_ids, req.time_tolerance)
       IN  tasks' = [tasks EXCEPT ![i] =
              IF Len(t.tile_ids) = 0
              THEN [t EXCEPT !.pc = "done"]
              ELSE [t EXCEPT !.pc = "fetch", !.box = box, !.times = times,
                             !.store_calls = @ + 3,
                             !.is_insitu_dataset =
                                 get_provider_name(req.secondary) # None,
                             !.next_page_url = Endpoint,
                             !.params =
                                 IF get_provider_name(req.secondary) # None
                                 THEN EdgeParams(t, box, times) ELSE NoParams]]
    /\ UNCHANGED <<drivers, DRIVER_LOCK, chain, masking, edge_call, pc, req, execution_id, tile_ids, shuffled, spark_result,
                   response, stored, edge_end, num_tiles, num_partitions>>

\* Lines 867-870: the first page is kept, later pages extend its results.
AccumulatePage_overwrite(edge_response, page) == page

AccumulatePage(edge_response, page) ==
    IF edge_response = <<>> THEN page
    ELSE [edge_response[1] EXCEPT !.results = @ \o page.results]

\* dict.get('next', None)
GetNext(page) == IF page.next.kind = Absent THEN NoUrl(None) ELSE page.next

TagSource(results, name) ==
    [n \in DOMAIN results |->
        [id |-> results[n].id, longitude |-> results[n].longitude,
         latitude |-> results[n].latitude, platform |-> results[n].platform,
         time |-> results[n].time, source |-> name]]

\* One iteration of query_edge's loop with a successful request (lines
\* 856-873); after the last page of a name, lines 699-704 and the next name;
\* after the last name, lines 705-764 up to the generators.
FetchPage(i) ==
    /\ JobAlive
    /\ tasks[i].pc = "fetch"
    /\ tasks[i].is_insitu_dataset
    /\ IsUrl(tasks[i].next_page_url)
    /\ LET t == tasks[i]
           names == Split(req.secondary)
           page == EdgePage(t.next_page_url, t.params, edge_end)
           resp == AccumulatePage(t.edge_response, page)
           nxt == GetNext(page)
           sent == Append(t.requests, [url |-> t.next_page_url, params |-> t.params])
           results == IF resp.total = 0 THEN t.edge_results
                      ELSE t.edge_results
                             \o TagSource(resp.results, names[t.name_pos])
       IN  tasks' = [tasks EXCEPT ![i] =
              IF IsUrl(nxt)
              THEN [t EXCEPT !.requests = sent, !.edge_response = <<resp>>,
                             !.next_page_url = nxt, !.params = NoParams]
              ELSE IF t.name_pos < Len(names)
              THEN [t EXCEPT !.requests = sent, !.edge_response = <<>>,
                             !.edge_results = results,
                             !.name_pos = @ + 1,
                             !.next_page_url = Endpoint,
                             !.params = EdgeParams([t EXCEPT !.name_pos = @ + 1],
                                                   t.box, t.times)]
              ELSE [t EXCEPT !.requests = sent, !.edge_response = <<resp>>,
                             !.next_page_url = nxt, !.params = NoParams,
                             !.edge_results = results,
                             !.matchup_points =
                                 [n \in DOMAIN results |->
                                     <<results[n].longitude, results[n].latitude>>],
                             !.fetched = TRUE,
                             !.pc = IF Len(results) = 0 THEN "done" ELSE "match"]]
    /\ UNCHANGED <<drivers, DRIVER_LOCK, chain, masking, edge_call, pc, req, execution_id, tile_ids, shuffled, spark_result,
                   response, stored, edge_end, num_tiles, num_partitions>>

\* raise_for_status raises (line 863): the task fails.
FetchFail(i) ==
    /\ JobAlive
    /\ tasks[i].pc = "fetch"
    /\ tasks[i].is_insitu_dataset
    /\ IsUrl(tasks[i].next_page_url)
    /\ tasks' = [tasks EXCEPT ![i].pc = "failed",
                              ![i].error = "HTTPError",
                              ![i].requests = Append(@,
                                  [url |-> tasks[i].next_page_url,
                                   params |-> tasks[i].params])]
    /\ UNCHANGED <<drivers, DRIVER_LOCK, chain, masking, edge_call, pc, req, execution_id, tile_ids, shuffled, spark_result,
                   response, stored, edge_end, num_tiles, num_partitions>>

\* cKDTree rejects data that is not an array of n points of dimension m:
\* np.array([]) of no points has one dimension.
cKDTree_error(matchup_points) ==
    IF Len(matchup_points) = 0 THEN "ValueError" ELSE None

\* The gridded variant (lines 715-756): the secondary tiles in the extent,
\* their valid samples as matchup points and as edge points, the tree.
FetchTiles(i) ==
    /\ JobAlive
    /\ tasks[i].pc = "fetch"
    /\ ~tasks[i].is_insitu_dataset
    /\ LET t == tasks[i]
           polygon == [min_x |-> t.box.min_lon, min_y |-> t.box.min_lat,
                       max_x |-> t.box.max_lon, max_y |-> t.box.max_lat]
           ids == find_tiles_in_polygon(polygon, req.secondary,
                                        t.times.min_time, t.times.max_time, RowCap)
           PointsOf(tile) ==
               [n \in DOMAIN get_indices(tile) |->
                   <<tile.longitudes[get_indices(tile)[n][3]],
                     tile.latitudes[get_indices(tile)[n][2]]>>]
           points == Flatten([n \in DOMAIN ids |-> PointsOf(Tile(ids[n]))])
           edge == Flatten([n \in DOMAIN ids |-> tile_to_edge_points(Tile(ids[n]))])
       IN  tasks' = [tasks EXCEPT ![i] =
              IF cKDTree_error(points) # None
              THEN [t EXCEPT !.fetched = TRUE, !.pc = "failed",
                             !.store_calls = @ + 1,
                             !.error = cKDTree_error(points)]
              ELSE [t EXCEPT !.fetched = TRUE, !.matchup_points = points,
                             !.store_calls = @ + 1,
                             !.edge_results = edge, !.pc = "match"]]
    /\ UNCHANGED <<drivers, DRIVER_LOCK, chain, masking, edge_call, pc, req, execution_id, tile_ids, shuffled, spark_result,
                   response, stored, edge_end, num_tiles, num_partitions>>

FilterPairs(pairs, time_tolerance) ==
    SelectSeq(pairs, LAMBDA pm : TimeFilter(pm, time_tolerance))

\* The next generator of the chain (line 764) is consumed: its pairs pass
\* the filter and the map-side combine; an exception fails the task.
MatchTile(i) ==
    /\ JobAlive
    /\ tasks[i].pc = "match"
    /\ LET t == tasks[i]
           gen == match_tile_to_point_generator(i, t.tile_ids[t.tpos],
                        t.matchup_points, t.edge_results, req.bounding_box,
                        req.radius_tolerance, Centroid2(t.box))
           kept == FilterPairs(gen.pairs, req.time_tolerance)
       IN  tasks' = [tasks EXCEPT ![i] =
              IF gen.error # None
              THEN [t EXCEPT !.pc = "failed", !.error = gen.error,
                             !.store_calls = @ + 1]
              ELSE [t EXCEPT !.local = CombineLocally(@, kept, req.match_once),
                             !.store_calls = @ + 1,
                             !.tpos = @ + 1,
                             !.pc = IF t.tpos = Len(t.tile_ids)
                                    THEN "combined" ELSE "match"]]
    /\ UNCHANGED <<drivers, DRIVER_LOCK, chain, masking, edge_call, pc, req, execution_id, tile_ids, shuffled, spark_result,
                   response, stored, edge_end, num_tiles, num_partitions>>

\* The partition's combined output is shuffled and merged by key.
TaskFinish(i) ==
    /\ JobAlive
    /\ tasks[i].pc = "combined"
    /\ shuffled' = MergeShuffled(shuffled, tasks[i].local, req.match_once)
    /\ tasks' = [tasks EXCEPT ![i].pc = "done"]
    /\ UNCHANGED <<drivers, DRIVER_LOCK, chain, masking, edge_call, pc, req, execution_id, tile_ids, spark_result,
                   response, stored, edge_end, num_tiles, num_partitions>>

(***************************************************************************)
(* The end of the driver and of calc                                       *)
(***************************************************************************)
\* The job succeeds when every task has succeeded.
JobSucceeded_lenient(ts) == \A i \in DOMAIN ts : ts[i].pc \in {"done", "failed"}

JobSucceeded(ts) == \A i \in DOMAIN ts : ts[i].pc = "done"

\* collectAsMap (lines 596-598) once every partition has finished.
Collect ==
    /\ pc = "running"
    /\ JobSucceeded(tasks)
    /\ spark_result' = collectAsMap(shuffled, req.match_once)
    /\ pc' = "collected"
    /\ UNCHANGED <<drivers, DRIVER_LOCK, chain, masking, edge_call, req, execution_id, tile_ids, tasks, shuffled,
                   response, stored, edge_end, num_tiles, num_partitions>>

\* Line 279: the number of matched primary points is above a positive limit.
ExceedsLimit_nozero(result_size_limit, matches) ==
    result_size_limit < Cardinality(DOMAIN matches)

ExceedsLimit(result_size_limit, matches) ==
    0 < result_size_limit /\ result_size_limit < Cardinality(DOMAIN matches)

\* calc, lines 238-286: the insertion thread is started, the result returned.
\* The insertion is started only when the full result is returned.
CalcReturn_limited ==
    /\ pc = "collected"
    /\ stored' = IF ExceedsLimit(req.result_size_limit, spark_result)
                 THEN NoStored
                 ELSE [kind |-> "pending", execution_id |-> execution_id,
                       matches |-> spark_result]
    /\ response' = IF ExceedsLimit(req.result_size_limit, spark_result)
                   THEN [kind |-> "accepted", status_code |-> 202]
                   ELSE [kind |-> "results", matches |-> spark_result]
    /\ pc' = "returned"
    /\ UNCHANGED <<drivers, DRIVER_LOCK, chain, masking, edge_call, req, execution_id, tile_ids, tasks, shuffled, spark_result,
                   edge_end, num_tiles, num_partitions>>

CalcReturn ==
    /\ pc = "collected"
    /\ stored' = [kind |-> "pending", execution_id |-> execution_id,
                  matches |-> spark_result]
    /\ response' = IF ExceedsLimit(req.result_size_limit, spark_result)
                   THEN [kind |-> "accepted", status_code |-> 202]
                   ELSE [kind |-> "results", matches |-> spark_result]
    /\ pc' = "returned"
    /\ UNCHANGED <<drivers, DRIVER_LOCK, chain, masking, edge_call, req, execution_id, tile_ids, tasks, shuffled, spark_result,
                   edge_end, num_tiles, num_partitions>>

\* do_result_insert (lines 271-275), in its own thread.
ResultInsert ==
    /\ stored.kind = "pending"
    /\ stored' = [stored EXCEPT !.kind = "stored"]
    /\ UNCHANGED <<drivers, DRIVER_LOCK, chain, masking, edge_call, pc, req, execution_id, tile_ids, tasks, shuffled,
                   spark_result, response, edge_end, num_tiles, num_partitions>>

\* Lines 234-236: whatever the exception of the driver, calc raises this.
ErrorResponse(exception) ==
    [kind |-> "error", code |-> 500,
     reason |-> "An unknown error occurred while computing matches"]

\* A failed task fails the job; calc raises.
CalcFail ==
    /\ pc = "running"
    /\ \E i \in DOMAIN tasks :
          /\ tasks[i].pc = "failed"
          /\ response' = ErrorResponse(tasks[i].error)
    /\ pc' = "failed"
    /\ UNCHANGED <<drivers, DRIVER_LOCK, chain, masking, edge_call, req, execution_id, tile_ids, tasks, shuffled, spark_result,
                   stored, edge_end, num_tiles, num_partitions>>

Next ==
    \/ ParseArguments
    \/ FindTiles
    \/ Driver
    \/ \E i \in DOMAIN tasks : TaskStart(i)
    \/ \E i \in DOMAIN tasks : FetchPage(i)
    \/ \E i \in DOMAIN tasks : FetchFail(i)
    \/ \E i \in DOMAIN tasks : FetchTiles(i)
    \/ \E i \in DOMAIN tasks : MatchTile(i)
    \/ \E i \in DOMAIN tasks : TaskFinish(i)
    \/ Collect
    \/ CalcReturn
    \/ ResultInsert
    \/ CalcFail

Spec == Init /\ [][Next]_vars

(***************************************************************************)
(* determine_parllelism on its own: every tile count up to MaxTilesPar,    *)
(* then more tiles, one at a time.                                         *)
(***************************************************************************)
InitPar ==
    /\ pc = "par"
    /\ num_tiles \in 0..MaxTilesPar
    /\ num_partitions = Frac(0, 1)
    /\ req = BaseRequest
    /\ edge_end = None
    /\ execution_id = 0
    /\ tile_ids = <<>>
    /\ tasks = <<>>
    /\ shuffled = EmptyMap
    /\ spark_result = EmptyMap
    /\ response = NoResponse
    /\ stored = NoStored
    /\ drivers = <<>>
    /\ DRIVER_LOCK = 0
    /\ chain = NoChain
    /\ masking = NoMasking
    /\ edge_call = NoEdgeCall

DetermineParallelism ==
    /\ pc = "par"
    /\ num_partitions' = determine_parllelism(num_tiles)
    /\ pc' = "par_done"
    /\ UNCHANGED <<drivers, DRIVER_LOCK, chain, masking, edge_call, req, execution_id, tile_ids, tasks, shuffled, spark_result,
                   response, stored, edge_end, num_tiles>>

MoreTiles ==
    /\ pc = "par_done"
    /\ num_tiles < MaxTilesPar
    /\ num_tiles' = num_tiles + 1
    /\ num_partitions' = determine_parllelism(num_tiles + 1)
    /\ UNCHANGED <<drivers, DRIVER_LOCK, chain, masking, edge_call, pc, req, execution_id, tile_ids, tasks, shuffled,
                   spark_result, response, stored, edge_end>>

NextPar == DetermineParallelism \/ MoreTiles

SpecPar == InitPar /\ [][NextPar]_vars

(***************************************************************************)
(* Concurrent calls of spark_matchup_driver (lines 531-598): the block     *)
(* under DRIVER_LOCK, statement by statement, then the Spark job.  The     *)
(* calls share one SparkContext and its Cores.                             *)
(***************************************************************************)
\* The broadcast variables, in the order of lines 537-545.
Broadcasts ==
    <<"primary_b", "secondary_b", "depth_min_b", "depth_max_b", "tt_b", "rt_b",
      "platforms_b", "bounding_wkt_b", "parameter_b">>

\* Tiles found for a call of the lock check.
DriverTiles == 3

NewDriver == [pc |-> "called", built |-> <<>>, rdd |-> <<>>]

InitLock ==
    /\ pc = "lock"
    /\ drivers = [c \in 1..NumCalls |-> NewDriver]
    /\ DRIVER_LOCK = 0
    /\ chain = NoChain
    /\ masking = NoMasking
    /\ edge_call = NoEdgeCall
    /\ num_tiles = DriverTiles
    /\ num_partitions = Frac(0, 1)
    /\ req = BaseRequest
    /\ edge_end = None
    /\ execution_id = 0
    /\ tile_ids = <<>>
    /\ tasks = <<>>
    /\ shuffled = EmptyMap
    /\ spark_result = EmptyMap
    /\ response = NoResponse
    /\ stored = NoStored

LockFrame ==
    UNCHANGED <<pc, req, execution_id, tile_ids, tasks, shuffled, spark_result,
                response, stored, edge_end, num_tiles, num_partitions, chain,
                masking, edge_call>>

\* Lock.__enter__ with the lock taken whether it is free or not.
Acquire_nowait(c) ==
    /\ drivers[c].pc = "called"
    /\ DRIVER_LOCK' = c
    /\ drivers' = [drivers EXCEPT ![c].pc = "locked"]
    /\ LockFrame

\* Line 535: Lock.__enter__ blocks until the lock is free.
Acquire(c) ==
    /\ drivers[c].pc = "called"
    /\ DRIVER_LOCK = 0
    /\ DRIVER_LOCK' = c
    /\ drivers' = [drivers EXCEPT ![c].pc = "locked"]
    /\ LockFrame

\* Lines 537-545: the next sc.broadcast.
Broadcast(c) ==
    /\ drivers[c].pc = "locked"
    /\ Len(drivers[c].built) < Len(Broadcasts)
    /\ drivers' = [drivers EXCEPT
          ![c].built = Append(@, Broadcasts[Len(drivers[c].built) + 1])]
    /\ UNCHANGED DRIVER_LOCK
    /\ LockFrame

\* A statement of the block raises: Lock.__exit__ releases the lock and the
\* exception leaves the driver, whose locals are lost.
BroadcastRaise(c) ==
    /\ drivers[c].pc = "locked"
    /\ drivers[c].rdd = <<>>
    /\ drivers' = [drivers EXCEPT ![c].pc = "raised", ![c].built = <<>>]
    /\ DRIVER_LOCK' = 0
    /\ LockFrame

\* Line 548: sc.parallelize, the last statement of the block.
Parallelize(c) ==
    /\ drivers[c].pc = "locked"
    /\ Len(drivers[c].built) = Len(Broadcasts)
    /\ drivers[c].rdd = <<>>
    /\ drivers' = [drivers EXCEPT ![c].rdd =
          [i \in DOMAIN parallelize([n \in 1..num_tiles |-> n],
                                    determine_parllelism(num_tiles)) |-> "waiting"]]
    /\ UNCHANGED DRIVER_LOCK
    /\ LockFrame

\* The end of the with block: Lock.__exit__.
Release(c) ==
    /\ drivers[c].pc = "locked"
    /\ drivers[c].rdd # <<>>
    /\ drivers' = [drivers EXCEPT ![c].pc = "mapping"]
    /\ DRIVER_LOCK' = 0
    /\ LockFrame

\* Lines 550-596: the transformations are lazy; collectAsMap submits the job.
SubmitJob(c) ==
    /\ drivers[c].pc = "mapping"
    /\ drivers' = [drivers EXCEPT ![c].pc = "job"]
    /\ UNCHANGED DRIVER_LOCK
    /\ LockFrame

RunningPartitions ==
    {ci \in (DOMAIN drivers) \X (1..MaxPartitions) :
        ci[2] \in DOMAIN drivers[ci[1]].rdd /\ drivers[ci[1]].rdd[ci[2]] = "running"}

\* A partition task (match_satellite_to_insitu) starts and ends.
PartitionStart(c, i) ==
    /\ drivers[c].pc = "job"
    /\ drivers[c].rdd[i] = "waiting"
    /\ \A j \in 1..(i - 1) : drivers[c].rdd[j] # "waiting"
    /\ Cardinality(RunningPartitions) < Cores
    /\ drivers' = [drivers EXCEPT ![c].rdd[i] = "running"]
    /\ UNCHANGED DRIVER_LOCK
    /\ LockFrame

PartitionEnd(c, i) ==
    /\ drivers[c].pc = "job"
    /\ drivers[c].rdd[i] = "running"
    /\ drivers' = [drivers EXCEPT ![c].rdd[i] = "done"]
    /\ UNCHANGED DRIVER_LOCK
    /\ LockFrame

\* Line 596 returns the map once every task has ended.
DriverReturn(c) ==
    /\ drivers[c].pc = "job"
    /\ \A i \in DOMAIN drivers[c].rdd : drivers[c].rdd[i] = "done"
    /\ drivers' = [drivers EXCEPT ![c].pc = "returned"]
    /\ UNCHANGED DRIVER_LOCK
    /\ LockFrame

PartitionStep ==
    \E c \in DOMAIN drivers : \E i \in DOMAIN drivers[c].rdd :
        PartitionStart(c, i) \/ PartitionEnd(c, i)

NextLock ==
    \/ \E c \in DOMAIN drivers : Acquire(c)
    \/ \E c \in DOMAIN drivers : Broadcast(c)
    \/ \E c \in DOMAIN drivers : BroadcastRaise(c)
    \/ \E c \in DOMAIN drivers : Parallelize(c)
    \/ \E c \in DOMAIN drivers : Release(c)
    \/ \E c \in DOMAIN drivers : SubmitJob(c)
    \/ \E c \in DOMAIN drivers : \E i \in DOMAIN drivers[c].rdd : PartitionStart(c, i)
    \/ \E c \in DOMAIN drivers : \E i \in DOMAIN drivers[c].rdd : PartitionEnd(c, i)
    \/ \E c \in DOMAIN drivers : DriverReturn(c)

SpecLock == InitLock /\ [][NextLock]_vars

(***************************************************************************)
(* The generators of one partition, step by step (lines 759-818):          *)
(* itertools.chain runs the generator of one tile up to its next yield    *)
(* each time the consumer asks for a pair.                                 *)
(***************************************************************************)
\* Lines 658-756 for the tiles of a partition: the extent and the secondary
\* points of either variant.
SecondaryOf(ids) ==
    LET box == MatchupBox(ids, req.radius_tolerance, req.bounding_box)
        times == MatchupTimes(ids, req.time_tolerance)
        results == TagSource(EdgeMatching(EdgeParams(NewTask(ids), box, times)),
                             req.secondary)
        polygon == [min_x |-> box.min_lon, min_y |-> box.min_lat,
                    max_x |-> box.max_lon, max_y |-> box.max_lat]
        sids == find_tiles_in_polygon(polygon, req.secondary, times.min_time,
                                      times.max_time, RowCap)
        edge == Flatten([n \in DOMAIN sids |-> tile_to_edge_points(Tile(sids[n]))])
    IN  IF get_provider_name(req.secondary) # None
        THEN [box |-> box, edge_results |-> results,
              matchup_points |-> [n \in DOMAIN results |->
                  <<results[n].longitude, results[n].latitude>>]]
        ELSE [box |-> box, edge_results |-> edge,
              matchup_points |-> [n \in DOMAIN edge |-> edge[n].point]]

\* gpos: the next generator to start; loaded: the tiles held by generators
\* that have started and not ended; pending: the matches not yet yielded,
\* as <<tile id, valid index, index of the secondary point>>; calls: the
\* ids passed to find_tile_by_id; emitted: the pairs yielded.
NewChain(part, ids, secondary) ==
    [kind |-> "chain", part |-> part, tile_ids |-> ids,
     box |-> secondary.box,
     matchup_points |-> secondary.matchup_points,
     edge_results |-> secondary.edge_results,
     gpos |-> 1, loaded |-> {}, pending |-> <<>>, calls |-> <<>>,
     emitted |-> <<>>, error |-> None]

GenRequests == {r \in ValidRequests : r.secondary \in {"samos", "gridded"}}

\* The partitions whose task reaches line 759.
InitGen ==
    /\ pc = "gen"
    /\ req \in GenRequests
    /\ \E found \in {find_tiles_in_polygon(req.bounding_box, req.primary,
                                            req.start_time, req.end_time, RowCap)} :
       \E parts \in {parallelize(found, determine_parllelism(Len(found)))} :
       \E i \in DOMAIN parts :
       \E secondary \in {IF parts[i] = <<>> THEN NoChain ELSE SecondaryOf(parts[i])} :
          /\ parts[i] # <<>>
          /\ secondary.matchup_points # <<>>
          /\ chain = NewChain(i, parts[i], secondary)
    /\ drivers = <<>>
    /\ DRIVER_LOCK = 0
    /\ masking = NoMasking
    /\ edge_call = NoEdgeCall
    /\ num_tiles = 0
    /\ num_partitions = Frac(0, 1)
    /\ edge_end = None
    /\ execution_id = 0
    /\ tile_ids = <<>>
    /\ tasks = <<>>
    /\ shuffled = EmptyMap
    /\ spark_result = EmptyMap
    /\ response = NoResponse
    /\ stored = NoStored

GenFrame ==
    UNCHANGED <<pc, req, execution_id, tile_ids, tasks, shuffled, spark_result,
                response, stored, edge_end, num_tiles, num_partitions,
                drivers, DRIVER_LOCK, masking, edge_call>>

\* matched_indexes of a loaded tile (line 798), flattened in the order of
\* the loops of lines 800 and 816.
MatchedIndexes(tile, matchup_points, radius_tolerance, c2) ==
    LET valid_indices == get_indices(tile)
        Matches(i) ==
            BallMatches(c2, tile.longitudes[valid_indices[i][3]],
                        tile.latitudes[valid_indices[i][2]],
                        matchup_points, radius_tolerance)
    IN  Flatten([i \in DOMAIN valid_indices |->
            [k \in DOMAIN Matches(i) |->
                <<tile.tile_id, valid_indices[i], Matches(i)[k]>>]])

\* The next generator is started while another one holds its tile.
GenStart_early ==
    /\ chain.error = None
    /\ chain.gpos <= Len(chain.tile_ids)
    /\ LET tile_id == chain.tile_ids[chain.gpos]
           loaded == LoadTile(tile_id, req.bounding_box)
       IN  chain' = [chain EXCEPT
              !.gpos = @ + 1,
              !.calls = Append(@, tile_id),
              !.loaded = IF loaded = <<>> THEN @ ELSE @ \cup {tile_id},
              !.pending = IF loaded = <<>> THEN @
                          ELSE @ \o MatchedIndexes(loaded[1], chain.matchup_points,
                                       req.radius_tolerance, Centroid2(chain.box))]
    /\ GenFrame

\* The chain asks the next generator for its first pair: lines 773-798 run.
\* A tile that is empty after masking ends its generator at once.
GenStart ==
    /\ chain.error = None
    /\ chain.loaded = {}
    /\ chain.gpos <= Len(chain.tile_ids)
    /\ LET tile_id == chain.tile_ids[chain.gpos]
           loaded == LoadTile(tile_id, req.bounding_box)
       IN  chain' = [chain EXCEPT
              !.gpos = @ + 1,
              !.calls = Append(@, tile_id),
              !.loaded = IF loaded = <<>> THEN @ ELSE @ \cup {tile_id},
              !.pending = IF loaded = <<>> THEN @
                          ELSE @ \o MatchedIndexes(loaded[1], chain.matchup_points,
                                       req.radius_tolerance, Centroid2(chain.box))]
    /\ GenFrame

\* The pair is built with the secondary point next to the matched one.
GenYield_shifted ==
    /\ chain.error = None
    /\ chain.pending # <<>>
    /\ LET m == Head(chain.pending)
           tile == LoadTile(m[1], req.bounding_box)[1]
           edge_point == chain.edge_results[(m[3] % Len(chain.edge_results)) + 1]
       IN  IF from_edge_point_error(edge_point) # None
           THEN chain' = [chain EXCEPT !.error = from_edge_point_error(edge_point),
                                       !.pending = <<>>, !.loaded = {}]
           ELSE chain' = [chain EXCEPT
                  !.pending = Tail(@),
                  !.emitted = Append(@,
                      <<from_nexus_point(tile, m[2],
                            PrimaryOid(chain.part, m[1], m[2], m[3])),
                        from_edge_point(edge_point)>>)]
    /\ GenFrame

\* Lines 815-818: the next pair is built and yielded, or from_edge_point
\* raises and the exception leaves the chain.
GenYield ==
    /\ chain.error = None
    /\ chain.pending # <<>>
    /\ LET m == Head(chain.pending)
           tile == LoadTile(m[1], req.bounding_box)[1]
           edge_point == chain.edge_results[m[3]]
       IN  IF from_edge_point_error(edge_point) # None
           THEN chain' = [chain EXCEPT !.error = from_edge_point_error(edge_point),
                                       !.pending = <<>>, !.loaded = {}]
           ELSE chain' = [chain EXCEPT
                  !.pending = Tail(@),
                  !.emitted = Append(@,
                      <<from_nexus_point(tile, m[2],
                            PrimaryOid(chain.part, m[1], m[2], m[3])),
                        from_edge_point(edge_point)>>)]
    /\ GenFrame

\* The loops end: the generator returns and its frame, with the tile and
\* the tree of its points, is released.
GenReturn ==
    /\ chain.error = None
    /\ chain.loaded # {}
    /\ chain.pending = <<>>
    /\ chain' = [chain EXCEPT !.loaded = {}]
    /\ GenFrame

NextGen == GenStart \/ GenYield \/ GenReturn

SpecGen == InitGen /\ [][NextGen]_vars

(***************************************************************************)
(* mask_tiles_to_polygon on its own: lists of one or two tiles of every    *)
(* shape up to MaxAxis samples along each axis.                            *)
(***************************************************************************)
\* A tile of nt x ni x nj samples with its first corner at (2, 1); of a
\* tile with holes the first sample is invalid.
ShapedTile(id, nt, ni, nj, holes) ==
    [tile_id |-> id,
     dataset |-> "primary",
     times |-> [n \in 1..nt |-> BaseTime + n - 1],
     latitudes |-> [n \in 1..ni |-> n],
     longitudes |-> [n \in 1..nj |-> n + 1],
     mask |-> [idx \in (1..nt) \X (1..ni) \X (1..nj) |->
                  holes /\ idx = <<1, 1, 1>>],
     bbox |-> [min_lon |-> 2, min_lat |-> 1, max_lon |-> nj + 1, max_lat |-> ni],
     min_time |-> BaseTime,
     max_time |-> BaseTime + nt - 1]

ShapedTiles(id) ==
    {ShapedTile(id, nt, ni, nj, holes) :
        nt \in 1..MaxAxis, ni \in 1..MaxAxis, nj \in 1..MaxAxis, holes \in BOOLEAN}

\* Polygons around all samples, around the first row and column, and away
\* from every sample.
MaskBoxes ==
    { [min_x |-> 0, min_y |-> 0, max_x |-> 5, max_y |-> 5],
      [min_x |-> 1, min_y |-> 0, max_x |-> 2, max_y |-> 1],
      [min_x |-> 2, min_y |-> 2, max_x |-> 5, max_y |-> 5],
      [min_x |-> 4, min_y |-> 4, max_x |-> 5, max_y |-> 5] }

InitMask ==
    /\ pc = "mask"
    /\ \E box \in MaskBoxes : \E first \in ShapedTiles(1) :
          \E rest \in {<<>>} \cup {<<t>> : t \in {ShapedTile(2, 1, 1, 1, FALSE),
                                                 ShapedTile(2, 1, 1, 2, FALSE)}} :
              masking = [kind |-> "call", bounding_polygon |-> box,
                         tiles |-> <<first>> \o rest]
    /\ drivers = <<>>
    /\ DRIVER_LOCK = 0
    /\ chain = NoChain
    /\ edge_call = NoEdgeCall
    /\ num_tiles = 0
    /\ num_partitions = Frac(0, 1)
    /\ req = BaseRequest
    /\ edge_end = None
    /\ execution_id = 0
    /\ tile_ids = <<>>
    /\ tasks = <<>>
    /\ shuffled = EmptyMap
    /\ spark_result = EmptyMap
    /\ response = NoResponse
    /\ stored = NoStored

\* The call returns its list of tiles or raises.
MaskTilesToPolygon ==
    /\ pc = "mask"
    /\ masking.kind = "call"
    /\ LET r == mask_tiles_to_polygon(masking.bounding_polygon, masking.tiles)
       IN  masking' = [kind |-> "done",
                       bounding_polygon |-> masking.bounding_polygon,
                       tiles |-> masking.tiles,
                       raised |-> r.raised,
                       returned |-> r.tiles]
    /\ pc' = "masked"
    /\ UNCHANGED <<req, execution_id, tile_ids, tasks, shuffled, spark_result,
                   response, stored, edge_end, num_tiles, num_partitions,
                   drivers, DRIVER_LOCK, chain, edge_call>>

NextMask == MaskTilesToPolygon

SpecMask == InitMask /\ [][NextMask]_vars

(***************************************************************************)
(* query_edge on its own (lines 821-875), one request of its loop at a     *)
(* time.  The endpoint is what doms/config.py is configured with.          *)
(***************************************************************************)
EdgeQueries ==
    {[kind |-> "query", startTime |-> FormatIso(a), endTime |-> FormatIso(b),
      bbox |-> [min_lon |-> box.min_x, min_lat |-> box.min_y,
                max_lon |-> box.max_x, max_lat |-> box.max_y],
      project |-> "samos", platform |-> "30"] :
        box \in SearchBoxes,
        a \in {BaseTime - 1, BaseTime + 3},
        b \in {BaseTime + 3, BaseTime + 4}}

getEndpoints == {Endpoint, NoUrl(None), NoUrl(NA)}

InitEdge ==
    /\ pc = "edge"
    /\ edge_end \in {None, NA, Absent}
    /\ \E q \in EdgeQueries : \E endpoint \in getEndpoints :
          edge_call = [kind |-> "call", pc |-> "loop", endpoint |-> endpoint,
                       query |-> q, params |-> q, next_page_url |-> endpoint,
                       requests |-> <<>>, edge_response |-> <<>>]
    /\ drivers = <<>>
    /\ DRIVER_LOCK = 0
    /\ chain = NoChain
    /\ masking = NoMasking
    /\ num_tiles = 0
    /\ num_partitions = Frac(0, 1)
    /\ req = BaseRequest
    /\ execution_id = 0
    /\ tile_ids = <<>>
    /\ tasks = <<>>
    /\ shuffled = EmptyMap
    /\ spark_result = EmptyMap
    /\ response = NoResponse
    /\ stored = NoStored

EdgeFrame ==
    UNCHANGED <<pc, req, execution_id, tile_ids, tasks, shuffled, spark_result,
                response, stored, edge_end, num_tiles, num_partitions,
                drivers, DRIVER_LOCK, chain, masking>>

\* The parameters are sent again with every request.
EdgeRequest_keepparams ==
    /\ edge_call.pc = "loop"
    /\ IsUrl(edge_call.next_page_url)
    /\ LET page == EdgePage(edge_call.next_page_url, edge_call.params, edge_end)
       IN  edge_call' = [edge_call EXCEPT
              !.requests = Append(@, [url |-> edge_call.next_page_url,
                                      params |-> edge_call.params]),
              !.edge_response = <<AccumulatePage(@, page)>>,
              !.next_page_url = GetNext(page)]
    /\ EdgeFrame

\* Lines 856-873: one iteration of the loop whose request succeeds.
EdgeRequest ==
    /\ edge_call.pc = "loop"
    /\ IsUrl(edge_call.next_page_url)
    /\ LET page == EdgePage(edge_call.next_page_url, edge_call.params, edge_end)
       IN  edge_call' = [edge_call EXCEPT
              !.requests = Append(@, [url |-> edge_call.next_page_url,
                                      params |-> edge_call.params]),
              !.edge_response = <<AccumulatePage(@, page)>>,
              !.next_page_url = GetNext(page),
              !.params = NoParams]
    /\ EdgeFrame

\* Line 863: raise_for_status raises and the exception leaves query_edge.
EdgeRaise ==
    /\ edge_call.pc = "loop"
    /\ IsUrl(edge_call.next_page_url)
    /\ edge_call' = [edge_call EXCEPT
          !.requests = Append(@, [url |-> edge_call.next_page_url,
                                  params |-> edge_call.params]),
          !.pc = "raised"]
    /\ EdgeFrame

\* Lines 856 and 875: the loop ends and edge_response is returned.
EdgeReturn ==
    /\ edge_call.pc = "loop"
    /\ ~IsUrl(edge_call.next_page_url)
    /\ edge_call' = [edge_call EXCEPT !.pc = "returned"]
    /\ EdgeFrame

NextEdge == EdgeRequest \/ EdgeRaise \/ EdgeReturn

\* The loop runs in one thread: it goes on as long as it can.
SpecEdge == InitEdge /\ [][NextEdge]_vars /\ WF_vars(NextEdge)

(***************************************************************************)
(* Properties                                                              *)
(***************************************************************************)
Collected == pc \in {"collected", "returned"}

\* The partition that holds a primary tile.
PartitionOf(tile_id) ==
    CHOOSE i \in DOMAIN tasks : tile_id \in Range(tasks[i].tile_ids)

\* Valid samples <<tile id, index>> of the tiles of partition i that are
\* left after the masking.
PrimarySamples(i) ==
    UNION { {<<k, idx>> :
                idx \in Range(get_indices(LoadTile(k, req.bounding_box)[1]))} :
            k \in {x \in Range(tasks[i].tile_ids) :
                      LoadTile(x, req.bounding_box) # <<>>} }

\* Secondary points of partition i within the radius of a primary sample ...
InRadius(i, s) ==
    LET tile == Tile(s[1])
        c2 == Centroid2(tasks[i].box)
    IN  {m \in DOMAIN tasks[i].edge_results :
            WithinBall(aeqd_proj(c2, tile.longitudes[s[2][3]], tile.latitudes[s[2][2]]),
                       aeqd_proj(c2, tasks[i].edge_results[m].longitude,
                                 tasks[i].edge_results[m].latitude),
                       req.radius_tolerance)}

\* ... and of these the ones within the time tolerance.
Surviving(i, s) ==
    {m \in InRadius(i, s) :
        Abs(Tile(s[1]).times[s[2][1]]
              - iso_time_to_epoch(tasks[i].edge_results[m].time))
            <= req.time_tolerance}

\* C1 - Temporal exactness: every (primary, secondary) pair of the map
\* returned by the driver, under either policy, has a time difference of at
\* most the time tolerance.
C1_TemporalExactness ==
    \A k \in DOMAIN spark_result : \A n \in DOMAIN spark_result[k] :
        Abs(iso_time_to_epoch(k.time) - iso_time_to_epoch(spark_result[k][n].time))
            <= req.time_tolerance

\* A map was returned although a candidate within the radius was too far
\* in time, and a pair with a time difference above zero was kept.
C1_Witness ==
    /\ Collected
    /\ \E i \in DOMAIN tasks : \E s \in PrimarySamples(i) :
          InRadius(i, s) \ Surviving(i, s) # {}
    /\ \E k \in DOMAIN spark_result : \E n \in DOMAIN spark_result[k] :
          k.time # spark_result[k][n].time

\* C2 - Match-once invariant: under match_once every key maps to exactly one
\* secondary point, a surviving candidate of that primary point, and no
\* surviving candidate of the point is nearer.
C2_MatchOnce ==
    (Collected /\ req.match_once) =>
        \A k \in DOMAIN spark_result :
            LET i == PartitionOf(k.data_id[1])
                v == spark_result[k]
            IN  /\ Len(v) = 1
                /\ \E m \in Surviving(i, k.data_id) :
                      tasks[i].edge_results[m].id = v[1].data_id
                /\ \A m \in Surviving(i, k.data_id) :
                      dist(k, v[1]) <= dist(k, tasks[i].edge_results[m])

\* A primary point had two surviving candidates at different distances.
C2_Witness ==
    /\ Collected /\ req.match_once
    /\ \E k \in DOMAIN spark_result :
          \E m1, m2 \in Surviving(PartitionOf(k.data_id[1]), k.data_id) :
              dist(k, tasks[PartitionOf(k.data_id[1])].edge_results[m1])
                < dist(k, tasks[PartitionOf(k.data_id[1])].edge_results[m2])

\* The ids of the secondary points of a value list, each with its count.
Count(v, id) == Cardinality({n \in DOMAIN v : v[n].data_id = id})

\* C3 - Match-all completeness: under match-all the pairs of the returned
\* map are the candidate pairs that survived the radius query and the time
\* filter, each exactly once: nothing omitted, duplicated or added.
C3_MatchAllComplete ==
    (Collected /\ ~req.match_once) =>
        /\ \A i \in DOMAIN tasks : \A s \in PrimarySamples(i) :
              LET keys == {k \in DOMAIN spark_result : k.data_id = s}
              IN  IF Surviving(i, s) = {} THEN keys = {}
                  ELSE /\ Cardinality(keys) = 1
                       /\ \A k \in keys :
                            /\ Len(spark_result[k]) = Cardinality(Surviving(i, s))
                            /\ \A m \in Surviving(i, s) :
                                 Count(spark_result[k],
                                       tasks[i].edge_results[m].id) = 1
        /\ \A k \in DOMAIN spark_result :
              k.data_id \in PrimarySamples(PartitionOf(k.data_id[1]))

\* A primary point kept several candidates and another candidate was dropped.
C3_Witness ==
    /\ Collected /\ ~req.match_once
    /\ \E k \in DOMAIN spark_result : Len(spark_result[k]) >= 2
    /\ \E i \in DOMAIN tasks : \E s \in PrimarySamples(i) :
          InRadius(i, s) \ Surviving(i, s) # {}

\* C4 - Key uniqueness: no two keys of the returned map denote the same
\* primary point (the same data_id).
C4_KeyUnique ==
    \A k1, k2 \in DOMAIN spark_result : k1.data_id = k2.data_id => k1 = k2

\* Several matches of one primary point sit under its single key, next to
\* keys of other partitions.
C4_Witness ==
    /\ Collected
    /\ \E k \in DOMAIN spark_result : Len(spark_result[k]) >= 2
    /\ \E k1, k2 \in DOMAIN spark_result :
          k1.oid.partition # k2.oid.partition

\* C5 - Partition bounds: for every number of tiles the partition count
\* lies between 8 and 128.
C5_PartitionBounds ==
    pc = "par_done" =>
        /\ FracLeq(Frac(8, 1), num_partitions)
        /\ FracLeq(num_partitions, Frac(128, 1))

\* The count was computed for more tiles than 128 partitions of 140 hold.
C5_Witness ==
    pc = "par_done" /\ num_tiles > 128 * 140 /\ FracEq(num_partitions, Frac(128, 1))

\* The partition count for n tiles: n/140 clamped to [8, 128].
ScalesWithTiles ==
    /\ num_tiles <= 1120 => FracEq(num_partitions, Frac(8, 1))
    /\ num_tiles >= 17920 => FracEq(num_partitions, Frac(128, 1))
    /\ (1120 < num_tiles /\ num_tiles < 17920) =>
          /\ FracEq(num_partitions, Frac(num_tiles, 140))
          /\ num_tiles * num_partitions.den <= 140 * num_partitions.num

\* C6 - Partition scaling: the count is n/140 clamped to [8, 128] (8 up to
\* 1120 tiles, 128 from 17920 tiles, at most 140 tiles per partition in
\* between) and never decreases when the number of tiles grows.
C6_PartitionScaling ==
    /\ [](pc = "par_done" => ScalesWithTiles)
    /\ [][(pc = "par_done" /\ pc' = "par_done" /\ num_tiles' > num_tiles)
            => FracLeq(num_partitions, num_partitions')]_vars

\* A mid-range tile count that is no multiple of 140.
C6_Witness ==
    /\ pc = "par_done"
    /\ 1120 < num_tiles /\ num_tiles < 17920 /\ num_tiles % 140 # 0
    /\ FracEq(num_partitions, Frac(num_tiles, 140))

\* The query a request puts to the source: in its parameters, or in the
\* continuation URL.
QueryOf(r) == IF r.url.kind = "endpoint" THEN r.params ELSE r.url.q

\* C7 - Extent containment in space: the box of every query for secondary
\* points lies within the box of the search polygon.
C7_ExtentInDomain ==
    \A i \in DOMAIN tasks : \A n \in DOMAIN tasks[i].requests :
        LET b == QueryOf(tasks[i].requests[n]).bbox
        IN  /\ req.bounding_box.min_x <= b.min_lon
            /\ req.bounding_box.min_y <= b.min_lat
            /\ b.max_lon <= req.bounding_box.max_x
            /\ b.max_lat <= req.bounding_box.max_y

\* A partition whose tiles reach beyond the search polygon has queried.
C7_Witness ==
    \E i \in DOMAIN tasks :
        /\ tasks[i].requests # <<>>
        /\ req.radius_tolerance > 0
        /\ get_bounding_box(tasks[i].tile_ids).min_lon < req.bounding_box.min_x

\* C8 - Extent containment in time: the time interval of every query for
\* secondary points lies within the requested time range and within the
\* tiles' time range widened by the time tolerance.
C8_TimeExtentInRange ==
    \A i \in DOMAIN tasks : \A n \in DOMAIN tasks[i].requests :
        LET q == QueryOf(tasks[i].requests[n])
        IN  /\ req.start_time <= iso_time_to_epoch(q.startTime)
            /\ iso_time_to_epoch(q.endTime) <= req.end_time
            /\ get_min_time(tasks[i].tile_ids) - req.time_tolerance
                  <= iso_time_to_epoch(q.startTime)
            /\ iso_time_to_epoch(q.endTime)
                  <= get_max_time(tasks[i].tile_ids) + req.time_tolerance

\* The pages the source serves for the requests made, in request order.
RECURSIVE ConcatPages(_)
ConcatPages(rs) ==
    IF rs = <<>> THEN <<>>
    ELSE ConcatPages(SubSeq(rs, 1, Len(rs) - 1))
            \o EdgePage(rs[Len(rs)].url, rs[Len(rs)].params, edge_end).results

Fetched(i) ==
    tasks[i].pc \in {"match", "combined", "done"} /\ tasks[i].requests # <<>>

\* C9 - Pagination completeness: query_edge requests the pages in chain
\* order, the first at the endpoint and each later one at the continuation
\* of the page before, up to the page without continuation; its results are
\* the pages' results concatenated in page order, every matching record
\* exactly once.
C9_PaginationComplete ==
    \A i \in DOMAIN tasks : Fetched(i) =>
        LET rs == tasks[i].requests
            Next_(n) == EdgePage(rs[n].url, rs[n].params, edge_end).next
        IN  /\ rs[1].url = Endpoint
            /\ \A n \in 2..Len(rs) : rs[n].url = Next_(n - 1)
            /\ ~IsUrl(Next_(Len(rs)))
            /\ tasks[i].edge_response[1].results = ConcatPages(rs)
            /\ tasks[i].edge_response[1].results = EdgeMatching(rs[1].params)

\* A query answered in several pages.
C9_Witness ==
    \E i \in DOMAIN tasks :
        /\ Fetched(i)
        /\ Len(tasks[i].requests) >= 2
        /\ Len(tasks[i].edge_response[1].results) > PageSize

\* C10 - Atomic failure: once a page request has failed, the matchup fails:
\* calc raises, returns no result and starts no insertion of results, and
\* neither the pages fetched before nor the matches of other partitions are
\* returned.
C10_AtomicFailure ==
    (\E i \in DOMAIN tasks : tasks[i].pc = "failed") =>
        /\ pc \in {"running", "failed"}
        /\ pc = "running" => ENABLED CalcFail
        /\ pc = "failed" => response.kind = "error"
        /\ response.kind # "results"
        /\ stored.kind = "none"
        /\ spark_result = EmptyMap

\* calc has raised after a partition failed on a later page while matches
\* of other partitions were already combined.
C10_Witness ==
    /\ pc = "failed"
    /\ shuffled # EmptyMap
    /\ \E i \in DOMAIN tasks :
          tasks[i].pc = "failed" /\ tasks[i].edge_response # <<>>

\* The exceptions of a failed fetch and of a failure inside the matching.
FetchErrors == {"HTTPError"}
InternalErrors == {"KeyError", "TypeError", "ValueError", "IndexError"}

\* What tells one failure of calc from another: its code and its reason.
Classification(r) == <<r.code, r.reason>>

\* C11 - Classified failure: the failure calc ends with tells validation
\* errors, fetch errors and internal errors apart; the failure of a fetch
\* error is never the one an internal error gives, nor the reverse.
C11_ClassifiedFailure ==
    /\ pc = "rejected" =>
          \A e \in FetchErrors \cup InternalErrors :
              Classification(response) # Classification(ErrorResponse(e))
    /\ pc = "failed" =>
          \A i \in DOMAIN tasks : tasks[i].pc = "failed" =>
              /\ tasks[i].error \in FetchErrors =>
                    \A e \in InternalErrors :
                        Classification(response) # Classification(ErrorResponse(e))
              /\ tasks[i].error \in InternalErrors =>
                    \A e \in FetchErrors :
                        Classification(response) # Classification(ErrorResponse(e))

\* A secondary name that is neither a registered project nor a dataset of
\* the Tile Store.
UnknownSecondary(r) ==
    \E n \in DOMAIN Split(r.secondary) :
        /\ get_provider_name(Split(r.secondary)[n]) = None
        /\ Split(r.secondary)[n] \notin {Tile(k).dataset : k \in TileIds}

InvalidRequest(r) ==
    \/ ~(RequiredArgs \subseteq r.given)
    \/ r.parameter \notin {None, "sst", "sss", "wind"}
    \/ r.start_time > r.end_time
    \/ {"depthMin", "depthMax"} \subseteq r.given /\ r.depth_min >= r.depth_max
    \/ UnknownSecondary(r)

\* C12 - Validation first: an invalid request (a required argument missing,
\* an unsupported parameter, startTime after endTime, depthMin >= depthMax,
\* a secondary without known provider) is rejected with code 400 before an
\* execution record exists, the Tile Store is queried or a partition starts.
C12_ValidationFirst ==
    (InvalidRequest(req) /\ pc # "parse") =>
        /\ pc = "rejected"
        /\ response.kind = "error" /\ response.code = 400
        /\ execution_id = 0
        /\ tile_ids = <<>>
        /\ tasks = <<>>

\* C13 - Empty secondary source: in either variant a partition whose
\* secondary fetch gave no point does not fail and contributes no entry.
C13_EmptySecondary ==
    \A i \in DOMAIN tasks :
        (tasks[i].fetched /\ tasks[i].matchup_points = <<>>) =>
            /\ tasks[i].pc = "done"
            /\ tasks[i].error = None
            /\ tasks[i].local = EmptyMap
            /\ \A k \in DOMAIN spark_result : k.oid.partition # i

\* Masking the tile to the search polygon leaves no valid sample.
FullyMasked(tile_id, box) ==
    /\ ~MaskRaises(Tile(tile_id))
    /\ mask_tiles_to_polygon(box, find_tile_by_id(tile_id)).tiles = <<>>

\* The tiles of partition i whose generators have been consumed.
Processed(i) ==
    IF tasks[i].pc \in {"match", "combined", "done"} /\ tasks[i].fetched
    THEN {tasks[i].tile_ids[n] : n \in 1..(tasks[i].tpos - 1)}
    ELSE {}

\* C14 - Fully masked tile: a primary tile without valid sample after the
\* masking gives no pair and no error, and the other tiles of its partition
\* are processed and their pairs emitted.
C14_MaskedTileSkipped ==
    \A i \in DOMAIN tasks :
        /\ tasks[i].error # "IndexError"
        /\ \A k \in Processed(i) :
              LET keys == {x \in DOMAIN tasks[i].local : x.data_id[1] = k}
              IN  IF FullyMasked(k, req.bounding_box) THEN keys = {}
                  ELSE tasks[i].is_insitu_dataset =>
                         {x.data_id : x \in keys}
                            = {s \in PrimarySamples(i) :
                                  s[1] = k /\ Surviving(i, s) # {}}

\* A partition went past a fully masked tile and then emitted the pairs of
\* its next tile.
C14_Witness ==
    \E i \in DOMAIN tasks :
        /\ tasks[i].pc = "done"
        /\ Len(tasks[i].tile_ids) >= 2
        /\ FullyMasked(tasks[i].tile_ids[1], req.bounding_box)
        /\ \E x \in DOMAIN tasks[i].local : x.data_id[1] = tasks[i].tile_ids[2]

\* The partition has computed its extent and chosen its variant.
Started(i) == tasks[i].pc # "waiting" /\ tasks[i].tile_ids # <<>>

\* C15 - Variant selection: a secondary argument that lists registered
\* in-situ datasets selects the in-situ variant, and the point source is
\* queried once (its pages followed) for each listed name; the gridded
\* variant is selected only for a gridded dataset.
C15_VariantSelection ==
    \A i \in DOMAIN tasks : Started(i) =>
        LET names == Split(req.secondary)
            first == {n \in DOMAIN tasks[i].requests :
                         tasks[i].requests[n].url = Endpoint}
        IN  /\ (\A n \in DOMAIN names : get_provider_name(names[n]) # None) =>
                  /\ tasks[i].is_insitu_dataset
                  /\ tasks[i].fetched =>
                        \A n \in DOMAIN names :
                            Cardinality({m \in first :
                                tasks[i].requests[m].params.project = names[n]}) = 1
            /\ ~tasks[i].is_insitu_dataset =>
                  req.secondary \in {Tile(k).dataset : k \in TileIds}

\* The valid samples of the secondary tiles in the extent of partition i.
GriddedSamples(i) ==
    LET b == tasks[i].box
        ids == find_tiles_in_polygon(
                   [min_x |-> b.min_lon, min_y |-> b.min_lat,
                    max_x |-> b.max_lon, max_y |-> b.max_lat],
                   req.secondary, tasks[i].times.min_time,
                   tasks[i].times.max_time, RowCap)
    IN  UNION { {<<ids[n], idx>> : idx \in Range(get_indices(Tile(ids[n])))} :
                n \in DOMAIN ids }

\* C16 - Gridded secondary conversion: in the gridded variant every valid
\* sample of the secondary tiles in the extent becomes exactly one secondary
\* point with its time and source, and emitting a candidate pair with such
\* a point raises no error.
C16_GriddedConversion ==
    \A i \in DOMAIN tasks :
        (Started(i) /\ ~tasks[i].is_insitu_dataset /\ tasks[i].fetched) =>
            /\ tasks[i].matchup_points # <<>> =>
                  /\ Len(tasks[i].edge_results) = Cardinality(GriddedSamples(i))
                  /\ Len(tasks[i].matchup_points) = Cardinality(GriddedSamples(i))
                  /\ \A n \in DOMAIN tasks[i].edge_results :
                        {"time", "source"}
                            \subseteq DOMAIN tasks[i].edge_results[n]
            /\ tasks[i].error \notin {"KeyError", "TypeError"}

\* C17 - Result size limit: calc answers with status 202 and without
\* results exactly when the limit is positive and the number of matched
\* primary points is above it; otherwise all matches are returned.
C17_ResultSizeLimit ==
    pc = "returned" =>
        LET n == Cardinality(DOMAIN spark_result)
        IN  IF req.result_size_limit > 0 /\ n > req.result_size_limit
            THEN /\ response.kind = "accepted"
                 /\ response.status_code = 202
                 /\ "matches" \notin DOMAIN response
            ELSE /\ response.kind = "results"
                 /\ response.matches = spark_result

\* calc answered 202: more primary points matched than a positive limit.
C17_Witness ==
    /\ pc = "returned"
    /\ req.result_size_limit > 0
    /\ Cardinality(DOMAIN spark_result) > req.result_size_limit
    /\ response.kind = "accepted"

\* A point without the identity of its object.
Content(point) ==
    [data_id |-> point.data_id, longitude |-> point.longitude,
     latitude |-> point.latitude, time |-> point.time,
     source |-> point.source, platform |-> point.platform]

\* The (primary, secondary) pairs of a map of lists.
PairSet(map) ==
    UNION { {<<Content(k), map[k][n]>> : n \in DOMAIN map[k]} : k \in DOMAIN map }

\* The output of partition i computed from the request alone: its extent,
\* every record of the source in the extent, the pairs of its tiles in
\* order, filtered and combined.
ReferenceLocal(i) ==
    LET ids == tasks[i].tile_ids
        box == MatchupBox(ids, req.radius_tolerance, req.bounding_box)
        times == MatchupTimes(ids, req.time_tolerance)
        q == EdgeParams(NewTask(ids), box, times)
        results == TagSource(EdgeMatching(q), req.secondary)
        points == [n \in DOMAIN results |->
                      <<results[n].longitude, results[n].latitude>>]
        pairs == Flatten([n \in DOMAIN ids |->
                    match_tile_to_point_generator(i, ids[n], points, results,
                        req.bounding_box, req.radius_tolerance,
                        Centroid2(box)).pairs])
    IN  IF ids = <<>> THEN EmptyMap
        ELSE CombineLocally(EmptyMap,
                 FilterPairs(pairs, req.time_tolerance), req.match_once)

\* Outputs of partitions merged in the order of the sequence.
RECURSIVE ReferenceMerge(_)
ReferenceMerge(locals) ==
    IF locals = <<>> THEN EmptyMap
    ELSE MergeShuffled(ReferenceMerge(SubSeq(locals, 1, Len(locals) - 1)),
                       locals[Len(locals)], req.match_once)

\* The outputs of the finished partitions, in index order.
FinishedLocals ==
    LET done == SelectSeq([i \in DOMAIN tasks |-> i],
                          LAMBDA i : tasks[i].pc = "done")
    IN  [n \in DOMAIN done |-> tasks[done[n]].local]

\* C18 - Idempotence under match-all: the pairs a run returns are those of
\* the request computed partition by partition in index order, whatever the
\* order in which the partitions ran and their outputs were merged; two runs
\* of one request therefore return the same set of pairs.
C18_Idempotence ==
    ~req.match_once =>
        /\ pc = "running" =>
              PairSet(shuffled)
                 = PairSet(ReferenceMerge(FinishedLocals))
        /\ Collected =>
              PairSet(spark_result)
                 = PairSet(collectAsMap(
                       ReferenceMerge([i \in DOMAIN tasks |-> ReferenceLocal(i)]),
                       FALSE))

\* The output of a partition was merged before that of a partition of
\* lower index, which has pairs to merge as well.
C18_Witness ==
    /\ pc = "running" /\ ~req.match_once
    /\ \E i, j \in DOMAIN tasks :
          /\ i < j
          /\ tasks[j].pc = "done" /\ tasks[j].local # EmptyMap
          /\ tasks[i].pc = "combined" /\ tasks[i].local # EmptyMap

\* The surviving candidates of a key that are as near as the one retained,
\* and the position of the retained one: candidates are combined in the
\* order of their positions.
TiedWith(k) ==
    LET i == PartitionOf(k.data_id[1])
    IN  {m \in Surviving(i, k.data_id) :
            dist(k, tasks[i].edge_results[m]) = dist(k, spark_result[k][1])}

Retained(k) ==
    LET i == PartitionOf(k.data_id[1])
    IN  CHOOSE m \in DOMAIN tasks[i].edge_results :
            tasks[i].edge_results[m].id = spark_result[k][1].data_id

\* C19 - Match-once tie-break, as the reducer of line 588 does it: of two
\* candidates at equal distance the one combined second is retained.
C19_TieKeepsSecond ==
    (Collected /\ req.match_once) =>
        \A k \in DOMAIN spark_result : \A m \in TiedWith(k) : m <= Retained(k)

\* C19 as stated: of two candidates at equal distance the one combined
\* first is retained.
C19_TieKeepsFirst ==
    (Collected /\ req.match_once) =>
        \A k \in DOMAIN spark_result : \A m \in TiedWith(k) : Retained(k) <= m

\* Two nearest candidates of a primary point were at the same distance.
C19_Witness ==
    /\ Collected /\ req.match_once
    /\ \E k \in DOMAIN spark_result : Cardinality(TiedWith(k)) >= 2

\* The candidates of a primary sample of partition i that survive radius
\* and time, as secondary points.
CandidatesOf(i, s) ==
    {from_edge_point(tasks[i].edge_results[m]) : m \in Surviving(i, s)}

\* A sequence as a multiset.
BagOf(seq) ==
    [x \in Range(seq) |-> Cardinality({n \in DOMAIN seq : seq[n] = x})]

Commutes(F(_, _), Eq(_, _), S) ==
    \A a, b \in S : Eq(F(a, b), F(b, a))

Associates(F(_, _), Eq(_, _), S) ==
    \A a, b, c \in S : Eq(F(F(a, b), c), F(a, F(b, c)))

\* C20 - Combine rule algebra: on the candidates of every primary point the
\* combine function of either policy is associative and commutative: list
\* union as a multiset under match-all, min-by-distance under match-once,
\* equidistant candidates included.
C20_CombineAlgebra ==
    \A i \in DOMAIN tasks :
        (tasks[i].pc = "combined" /\ tasks[i].is_insitu_dataset) =>
            \A s \in PrimarySamples(i) :
                LET primary == [longitude |-> Tile(s[1]).longitudes[s[2][3]],
                                latitude |-> Tile(s[1]).latitudes[s[2][2]]]
                    cands == CandidatesOf(i, s)
                    lists == {<<x>> : x \in cands}
                                \cup {<<x, y>> : x \in cands, y \in cands}
                    once == {[m |-> x, d |-> dist(primary, x)] : x \in cands}
                    All(a, b) == mergeCombiners(FALSE, a, b)
                    Once(a, b) == mergeCombiners(TRUE, a, b)
                    SameBag(a, b) == BagOf(a) = BagOf(b)
                    Same(a, b) == a = b
                IN  /\ Commutes(All, SameBag, lists)
                    /\ Associates(All, SameBag, lists)
                    /\ Associates(Once, Same, once)
                    /\ Commutes(Once, Same, once)

\* The calls that are inside the block under DRIVER_LOCK.
Constructing == {c \in DOMAIN drivers : drivers[c].pc = "locked"}

PartitionStarted(c) ==
    \E i \in DOMAIN drivers[c].rdd : drivers[c].rdd[i] # "waiting"

\* C21 - Driver lock: at most one call at a time is inside the block that
\* builds the broadcast parameters and the parallelized collection, and it
\* is the holder of DRIVER_LOCK; a call whose partitions have started has
\* built all of them; the lock is not held by a call that has left the
\* block, by returning or by raising; no step of a partition task changes
\* the lock.
C21_DriverLock ==
    /\ [](/\ Cardinality(Constructing) <= 1
          /\ \A c \in DOMAIN drivers :
                /\ drivers[c].pc = "locked" <=> DRIVER_LOCK = c
                /\ drivers[c].pc = "called" =>
                      drivers[c].built = <<>> /\ drivers[c].rdd = <<>>
                /\ drivers[c].pc \in {"mapping", "job", "returned"} =>
                      /\ drivers[c].built = Broadcasts
                      /\ drivers[c].rdd # <<>>
                /\ PartitionStarted(c) =>
                      drivers[c].pc \in {"job", "returned"})
    /\ [][PartitionStep => DRIVER_LOCK' = DRIVER_LOCK]_vars

\* One call is building its parameters under the lock while a partition of
\* another call runs.
C21_Witness ==
    \E c, d \in DOMAIN drivers :
        /\ drivers[c].pc = "locked" /\ drivers[c].built # <<>>
        /\ drivers[d].pc = "job" /\ \E i \in DOMAIN drivers[d].rdd :
              drivers[d].rdd[i] = "running"

\* The chain has ended without exception.
ChainEnded ==
    /\ chain.error = None
    /\ chain.gpos > Len(chain.tile_ids)
    /\ chain.loaded = {}

\* C22 - One tile at a time: the generators of a partition load their tiles
\* one after the other in the order of the partition's tile ids, a tile is
\* loaded only when no pair of an earlier tile is left to emit, and at any
\* moment at most one tile is held.
C22_OneTileAtATime ==
    /\ [](chain.kind = "chain" =>
            /\ Cardinality(chain.loaded) <= 1
            /\ chain.calls = SubSeq(chain.tile_ids, 1, chain.gpos - 1)
            /\ \A n \in DOMAIN chain.pending :
                  chain.pending[n][1] = chain.tile_ids[chain.gpos - 1]
            /\ \A n \in DOMAIN chain.emitted :
                  chain.emitted[n][1].data_id[1] \in Range(chain.calls))
    /\ [][(chain.kind = "chain" /\ chain'.calls # chain.calls) =>
            /\ chain.pending = <<>>
            /\ chain.loaded = {}
            /\ Len(chain'.calls) = Len(chain.calls) + 1]_vars

\* A second tile was loaded after the pairs of the first had been emitted.
C22_Witness ==
    /\ chain.kind = "chain"
    /\ Len(chain.calls) >= 2
    /\ chain.loaded # {}
    /\ \E n \in DOMAIN chain.emitted :
          chain.emitted[n][1].data_id[1] = chain.calls[1]
    /\ chain.pending # <<>>

\* The matches of the chain so far, yielded or still to yield, as
\* <<tile id, valid index, index of the secondary point>>.
ChainMatches ==
    [n \in DOMAIN chain.emitted |->
        <<chain.emitted[n][1].data_id[1], chain.emitted[n][1].data_id[2],
          CHOOSE m \in DOMAIN chain.edge_results :
              chain.edge_results[m].id = chain.emitted[n][2].data_id>>]
    \o chain.pending

MatchesOfTile(k) == SelectSeq(ChainMatches, LAMBDA x : x[1] = k)

\* Squared planar distance of two projected points.
PlanarDistSq(a, b) ==
    (a[1] - b[1]) * (a[1] - b[1]) + (a[2] - b[2]) * (a[2] - b[2])

\* The (valid sample, secondary point) pairs of a masked tile whose
\* projected points are at most the radius apart.
InBall(tile) ==
    LET c2 == Centroid2(chain.box)
    IN  {x \in Range(get_indices(tile)) \X DOMAIN chain.matchup_points :
            PlanarDistSq(
                aeqd_proj(c2, tile.longitudes[x[1][3]], tile.latitudes[x[1][2]]),
                aeqd_proj(c2, chain.matchup_points[x[2]][1],
                          chain.matchup_points[x[2]][2]))
              <= (4 * req.radius_tolerance) * (4 * req.radius_tolerance)}

\* The position of a valid index in the tile's list of valid indices.
ValidPos(tile, idx) ==
    CHOOSE n \in DOMAIN get_indices(tile) : get_indices(tile)[n] = idx

\* C23 - Ball query: the matches of a started tile, yielded or about to be,
\* are the pairs of a valid sample of the masked tile and a secondary point
\* of the partition at most the radius apart in the projection, each once,
\* in the order of the tile's valid indices; each yielded pair carries the
\* sample's and the secondary point's coordinates; a tile that is empty
\* after the masking gives none.
C23_BallQuery ==
    (chain.kind = "chain" /\ chain.error = None) =>
        /\ \A n \in DOMAIN chain.calls :
              LET k == chain.calls[n]
                  loaded == LoadTile(k, req.bounding_box)
                  ms == MatchesOfTile(k)
              IN  IF loaded = <<>> THEN ms = <<>>
                  ELSE /\ {<<ms[a][2], ms[a][3]>> : a \in DOMAIN ms} = InBall(loaded[1])
                       /\ Len(ms) = Cardinality(InBall(loaded[1]))
                       /\ \A a, b \in DOMAIN ms :
                             a < b => ValidPos(loaded[1], ms[a][2])
                                        <= ValidPos(loaded[1], ms[b][2])
        /\ \A n \in DOMAIN chain.emitted :
              LET x == ChainMatches[n]
                  tile == LoadTile(x[1], req.bounding_box)[1]
              IN  /\ chain.emitted[n][1].longitude = tile.longitudes[x[2][3]]
                  /\ chain.emitted[n][1].latitude = tile.latitudes[x[2][2]]
                  /\ chain.emitted[n][2] = from_edge_point(chain.edge_results[x[3]])

\* The chain has ended after a tile with two matched samples, one of them
\* with several secondary points, and a valid sample without match.
C23_Witness ==
    /\ chain.kind = "chain"
    /\ ChainEnded
    /\ \E k \in Range(chain.calls) :
          /\ LoadTile(k, req.bounding_box) # <<>>
          /\ LET tile == LoadTile(k, req.bounding_box)[1]
                 Of(idx) == {x \in InBall(tile) : x[1] = idx}
             IN  /\ \E i1, i2 \in Range(get_indices(tile)) :
                       /\ i1 # i2
                       /\ Cardinality(Of(i1)) >= 2
                       /\ Of(i2) # {}
                 /\ \E i3 \in Range(get_indices(tile)) : Of(i3) = {}
          /\ \E n \in DOMAIN chain.emitted : chain.emitted[n][1].data_id[1] = k

\* The longitude and latitude an edge point describes: its 'longitude' and
\* 'latitude' entries, or its 'point' entry.
CoordinatesOf(edge_point) ==
    IF "point" \in DOMAIN edge_point THEN edge_point.point
    ELSE <<edge_point.longitude, edge_point.latitude>>

InBox(r, b) ==
    /\ b.min_lon <= r.longitude /\ r.longitude <= b.max_lon
    /\ b.min_lat <= r.latitude /\ r.latitude <= b.max_lat

\* C25 - Radius-to-degrees expansion: the box of the partition's tiles is
\* widened by the radius in latitude and by the radius divided by
\* cos(latitude) in longitude, so the longitude margin is at least the
\* latitude margin, and every record of the search domain within the radius
\* of a valid tile point lies in the extent of the partition.
C25_RadiusExpansion ==
    \A i \in DOMAIN tasks : Started(i) =>
        LET bb == get_bounding_box(tasks[i].tile_ids)
            rt == req.radius_tolerance
            lo == add_meters_to_lon_lat(bb.min_lon, bb.min_lat, -1 * rt)
            hi == add_meters_to_lon_lat(bb.max_lon, bb.max_lat, rt)
            domain == [min_lon |-> req.bounding_box.min_x,
                       min_lat |-> req.bounding_box.min_y,
                       max_lon |-> req.bounding_box.max_x,
                       max_lat |-> req.bounding_box.max_y]
        IN  /\ bb.min_lat - lo.latitude = rt
            /\ hi.latitude - bb.max_lat = rt
            /\ (bb.min_lon - lo.longitude) * Cos2(bb.min_lat) = 2 * rt
            /\ (hi.longitude - bb.max_lon) * Cos2(bb.max_lat) = 2 * rt
            /\ bb.min_lon - lo.longitude >= bb.min_lat - lo.latitude
            /\ hi.longitude - bb.max_lon >= hi.latitude - bb.max_lat
            /\ \A s \in PrimarySamples(i) : \A n \in DOMAIN InsituRecords :
                  LET p == [longitude |-> Tile(s[1]).longitudes[s[2][3]],
                            latitude |-> Tile(s[1]).latitudes[s[2][2]]]
                  IN  (/\ InBox(InsituRecords[n], domain)
                       /\ dist(p, InsituRecords[n]) <= (4 * rt) * (4 * rt))
                          => InBox(InsituRecords[n], tasks[i].box)

\* The tile given to the call that a returned tile comes from.
GivenTile(tile) ==
    CHOOSE t \in Range(masking.tiles) : t.tile_id = tile.tile_id

\* C26 - Polygon masking: the call returns; a sample <<t, i, j>> of a
\* returned tile is valid only if it was valid before and latitudes[i] and
\* longitudes[j] lie within the bounds of the polygon; the tiles returned
\* are the given tiles with a valid sample left, in their order.
C26_PolygonMasking ==
    masking.kind = "done" =>
        LET b == masking.bounding_polygon
            Inside(tile, idx) ==
                /\ ~Outside(tile.latitudes[idx[2]], b.min_y, b.max_y)
                /\ ~Outside(tile.longitudes[idx[3]], b.min_x, b.max_x)
            Left(tile) ==
                {idx \in DOMAIN tile.mask : ~tile.mask[idx] /\ Inside(tile, idx)}
        IN  /\ ~masking.raised
            /\ \A n \in DOMAIN masking.returned :
                  LET tile == masking.returned[n]
                  IN  /\ \E idx \in DOMAIN tile.mask : ~tile.mask[idx]
                      /\ \A idx \in DOMAIN tile.mask :
                            ~tile.mask[idx] =>
                                /\ ~GivenTile(tile).mask[idx]
                                /\ Inside(tile, idx)
            /\ [n \in DOMAIN masking.returned |-> masking.returned[n].tile_id]
                  = SelectSeq([n \in DOMAIN masking.tiles |-> masking.tiles[n].tile_id],
                              LAMBDA id : Left(CHOOSE t \in Range(masking.tiles) :
                                                   t.tile_id = id) # {})

\* C27 - Empty partition: a partition without tile ids ends at once, with
\* no pair, no call to the Tile Store and no request to the Secondary Point
\* Source, and contributes no entry; no failure of the operation comes from
\* a partition without tiles.
C27_EmptyPartition ==
    \A i \in DOMAIN tasks :
        (tasks[i].tile_ids = <<>> /\ tasks[i].pc # "waiting") =>
            /\ tasks[i].pc = "done"
            /\ tasks[i].error = None
            /\ tasks[i].local = EmptyMap
            /\ tasks[i].store_calls = 0
            /\ tasks[i].requests = <<>>
            /\ ~tasks[i].fetched
            /\ \A k \in DOMAIN shuffled \cup DOMAIN spark_result : k.oid.partition # i

\* The driver returned matches although the tiles were fewer than the
\* partitions and some partitions had none.
C27_Witness ==
    /\ Collected
    /\ Len(tile_ids) < Len(tasks)
    /\ \E i \in DOMAIN tasks : tasks[i].tile_ids = <<>> /\ tasks[i].pc = "done"
    /\ spark_result # EmptyMap

\* The pages the source holds for a query.
PagesOf(q) ==
    IF Len(EdgeMatching(q)) = 0 THEN 1
    ELSE (Len(EdgeMatching(q)) + PageSize - 1) \div PageSize

\* C28 - Pagination termination: query_edge ends, by returning or by the
\* exception of a failed request; when it returns it has made one request
\* per page of the source's chain, the first with the query parameters at
\* the endpoint and every later one at the continuation URL without
\* parameters; with an endpoint of None or 'NA' it makes no request.
C28_PaginationTermination ==
    /\ <>(edge_call.pc \in {"returned", "raised"})
    /\ [](edge_call.kind = "call" =>
            LET rs == edge_call.requests
            IN  /\ Len(rs) <= PagesOf(edge_call.query)
                /\ \A n \in DOMAIN rs :
                      IF n = 1
                      THEN rs[n].url = Endpoint /\ rs[n].params = edge_call.query
                      ELSE /\ rs[n].url.kind = "next"
                           /\ rs[n].params = NoParams
                           /\ \A m \in 1..(n - 1) : rs[m].url # rs[n].url
                /\ ~IsUrl(edge_call.endpoint) => rs = <<>>
                /\ (edge_call.pc = "returned" /\ IsUrl(edge_call.endpoint)) =>
                      Len(rs) = PagesOf(edge_call.query))

\* A call returned after three pages.
C28_Witness ==
    /\ edge_call.kind = "call"
    /\ edge_call.pc = "returned"
    /\ Len(edge_call.requests) >= 3
    /\ edge_call.requests[3].params = NoParams

\* C29 - Whole-number partition count: for every N >= 0 the value returned by
\* determine_parllelism is a whole number.
C29_WholePartitionCount ==
    pc = "par_done" => num_partitions.num % num_partitions.den = 0

\* C30 - Asynchronous result storage: when calc returns after a successful
\* matchup, with the 202 response as with the full response, the insertion
\* of the whole match map under the execution id has been started; calc
\* returns without the insertion having run, and the insertion, in its own
\* thread, changes neither calc's position nor its response; when the
\* matchup fails, and before calc returns, no insertion is started.
C30_AsyncStorage ==
    /\ [](/\ pc = "returned" =>
                /\ response.kind \in {"accepted", "results"}
                /\ stored.kind \in {"pending", "stored"}
                /\ stored.matches = spark_result
                /\ stored.execution_id = execution_id
          /\ pc # "returned" => stored = NoStored
          /\ pc = "collected" => ENABLED CalcReturn)
    /\ [][stored'.kind = "stored" /\ stored.kind # "stored"
            => /\ stored.kind = "pending"
               /\ UNCHANGED <<pc, response, spark_result>>]_vars

\* calc has returned the 202 response with its execution id while the
\* matches are not stored yet.
C30_Witness ==
    /\ pc = "returned"
    /\ response.kind = "accepted"
    /\ stored.kind = "pending"
    /\ stored.matches # EmptyMap

====
